---------------------------- MODULE Spec2Model ----------------------------
(***************************************************************************)
(* Sentinel HG: the content script's extraction / dispatch pipeline, the   *)
(* background service worker's classification engine, and the feedback     *)
(* store, as three state machines that share no variable.                   *)
(*                                                                         *)
(*   ContentSpec   ContentScript      (src/unnamed/part_004, lines 18-334) *)
(*   EngineSpec    BackgroundServiceWorker (src/unnamed/part_001, 620-907) *)
(*   FeedbackSpec  FeedbackManager    (src/unnamed/part_002, lines 365-504)*)
(***************************************************************************)
EXTENDS Integers, Sequences, FiniteSets, TLC

VARIABLES
    \* ---- the document (environment of the content script)
    linked,             \* linked[e]: e is attached to its parent node
    directLen,          \* directLen[e]: trimmed length of e's own text node (0: none)
    hidden,             \* elements styled display:none
    \* ---- ContentScript fields
    hsExtId,            \* element.dataset.hsExtId (NoId: absent)
    processedElements,  \* ContentScript.processedElements
    uniqueIdCounter,    \* ContentScript.uniqueIdCounter
    isEnabled,          \* ContentScript.isEnabled
    sweepPc,            \* "init" | "running" | "done": the startup sweep
    sweepElements,      \* the closure variable `elements` of processElementsInBatches
    sweepIndex,         \* the closure variable `index` of processElementsInBatches
    mutationQueue,      \* MutationObserver records not yet delivered (added nodes)
    outbox,             \* classifyText messages sent to the background
    sent,               \* sent[e]: number of classifyText messages sent for e
    reoffered,          \* elements handed to processTextElement again once tagged
    \* ---- ContentScript: classification results and their presentation
    answered,           \* elementIds whose sendMessage callback has run
    runtimeMessages,    \* runtime messages that reached the onMessage default branch
    indicators,         \* indicators[e]: warning indicators inside element e
    applied,            \* applied[e]: runs of applyHatefulStyling on element e
    lastDelivery,       \* the last message handed to the content script
    \* ---- BackgroundServiceWorker fields
    bgPc,               \* "new": constructed; "ready": init() has run
    settings,           \* BackgroundServiceWorker.settings
    classifier,         \* BackgroundServiceWorker.classifier (Null or the model loaded)
    isModelLoaded,      \* BackgroundServiceWorker.isModelLoaded
    isModelLoading,     \* BackgroundServiceWorker.isModelLoading
    loadingModel,       \* `modelName` of the pipeline() call in flight
    pipelineCalls,      \* pipeline() calls made so far
    pipelineSettled,    \* pipeline() calls that have resolved or rejected
    pending,            \* the classifyText call awaiting this.classifier(...)
    lastCall,           \* the classifyText call that has just returned, with its
                        \* verdict (NoCall once another handler has run)
    inferenceThrew,     \* this.classifier(...) has thrown in an earlier call
    \* ---- BackgroundServiceWorker.handleClassificationRequest
    requestInFlight,    \* the classifyText message whose handler awaits classifyText
    classified,         \* the texts handed to this.classifyText so far
    lastResponse,       \* what sendResponse was last called with, and for which message
    recentDetections,   \* chrome.storage.local: recentDetections
    detectionStats,     \* chrome.storage.local: stats
    broadcasts,         \* the actions of the messages the background has sent
                        \* on its own account with chrome.runtime.sendMessage
    routed,             \* the message handleMessage was last called with, whether
                        \* its handler still awaits, and what sendResponse has
                        \* been called with for it
    preprocessCall,     \* the text preprocessText was called with and, once it
                        \* has returned, the string it returned
    storeCalls,         \* the storeDetection calls in flight with their locals,
                        \* the hateful verdicts returned since the last
                        \* clearStats, and whether that clearStats ran under a
                        \* call in flight
    \* ---- FeedbackManager and chrome.storage.local
    storageLocal,       \* chrome.storage.local, the two keys of the feedback store
    submits,            \* the submitFeedback calls in flight, with their locals
    nextId,             \* submitFeedback calls made so far (generateId)
    callsMade,          \* FeedbackManager calls made so far
    exportCall,         \* the exportFeedback call in flight, with its locals
    lastExport,         \* the string exportFeedback has just returned (NoExport
                        \* once the store has been written)
    submittedSinceClear,\* per type, the submitFeedback calls made since the last
                        \* clearFeedback
    overlapped,         \* since the last clearFeedback, a submitFeedback call
                        \* started while another one was in flight
    clearedInFlight,    \* the last clearFeedback ran with a submitFeedback call
                        \* in flight
    lastOutcome         \* what the submitFeedback call that has just returned
                        \* reported and wrote (NoOutcome once another step ran)

contentVars == <<linked, directLen, hidden, hsExtId, processedElements,
                 uniqueIdCounter, isEnabled, sweepPc, sweepElements, sweepIndex,
                 mutationQueue, outbox, sent, reoffered>>

engineVars == <<bgPc, settings, classifier, isModelLoaded, isModelLoading,
                loadingModel, pipelineCalls, pipelineSettled, pending, lastCall,
                inferenceThrew>>

feedbackVars == <<storageLocal, submits, nextId, callsMade, exportCall, lastExport,
                  submittedSinceClear, overlapped, clearedInFlight, lastOutcome>>

requestVars == <<requestInFlight, classified, lastResponse, recentDetections,
                 detectionStats, broadcasts, routed, storeCalls, preprocessCall>>

presentationVars == <<answered, runtimeMessages, indicators, applied, lastDelivery>>

vars == <<contentVars, presentationVars, engineVars, requestVars, feedbackVars>>

-----------------------------------------------------------------------------
(* Bounds of the model                                                      *)

\* records the MutationObserver may hold before its callback runs
MaxQueue == 2

\* calls of FeedbackManager (submitFeedback, clearFeedback, exportFeedback)
\* in one behaviour
MaxCalls == 3

\* submitFeedback calls in flight together
MaxInFlight == 2

\* entries the log keeps: 1000 in FeedbackManager.submitFeedback
\* (src/unnamed/part_002, line 392), scaled down so that the cap is exceeded
\* within MaxCalls calls
FeedbackCap == 2

\* entries of recentFeedback: 50 in FeedbackManager.getFeedbackStats
\* (src/unnamed/part_002, line 415), scaled down with FeedbackCap
RecentCap == 1

-----------------------------------------------------------------------------
(* The document: eight elements under document.body, numbered in document  *)
(* order; an element's own text node precedes its child elements            *)
(*      body -+- 1 DIV -+- 2 P                                              *)
(*            |         +- 3 SPAN                                           *)
(*            +- 4 P,  5 LI,  6 H2,  7 TD     (static page content)         *)
(*            +- 8 P                                                        *)

Body == 0
Elems == {1, 2, 3, 4, 5, 6, 7, 8}
NoId == 0

\* the elements the page hides, those it detaches and attaches, and those
\* whose text node it rewrites
HideableElems == {8}
MovableElems == {1, 2, 8}
EditableElems == {8}

\* this.processElementsInBatches(elements, 5)
BatchSize == 5

ParentOf(e) == CASE e = 2 -> 1
                 [] e = 3 -> 1
                 [] OTHER -> Body

Tag(e) == CASE e = 1 -> "DIV"
            [] e = 3 -> "SPAN"
            [] e = 5 -> "LI"
            [] e = 6 -> "H2"
            [] e = 7 -> "TD"
            [] OTHER -> "P"

\* trimmed lengths a text node may have: none, too short, substantial, one
\* that makes a container exceed the upper limit, and one above the limit
TextLens(e) == CASE e = 1 -> {0, 12, 1995}
                 [] e = 8 -> {4, 12, 2001}
                 [] OTHER -> {12}

Min(a, b) == IF a < b THEN a ELSE b

RECURSIVE SetToSortedSeq(_)
SetToSortedSeq(S) ==
    IF S = {} THEN <<>>
    ELSE LET m == CHOOSE x \in S : \A y \in S : x <= y
         IN <<m>> \o SetToSortedSeq(S \ {m})

\* element.parentElement chain
RECURSIVE Ancestors(_)
Ancestors(e) ==
    IF ~linked[e] \/ ParentOf(e) = Body THEN {}
    ELSE {ParentOf(e)} \cup Ancestors(ParentOf(e))

RECURSIVE InDocument(_)
InDocument(e) ==
    linked[e] /\ (ParentOf(e) = Body \/ InDocument(ParentOf(e)))

\* the elements of the subtree rooted at node (node included; document.body
\* itself is no element of the model: its tag is no text element type)
Subtree(node) ==
    IF node = Body THEN {e \in Elems : InDocument(e)}
    ELSE {node} \cup {e \in Elems : node \in Ancestors(e)}

RECURSIVE SumLen(_)
SumLen(S) ==
    IF S = {} THEN 0
    ELSE LET x == CHOOSE y \in S : TRUE IN directLen[x] + SumLen(S \ {x})

\* (element.textContent || '').trim().length
TextContentLen(e) == SumLen(Subtree(e))

-----------------------------------------------------------------------------
(* ContentScript: the dispatcher state threaded through one synchronous pass *)

Dispatcher == [ids |-> hsExtId, proc |-> processedElements,
               ctr |-> uniqueIdCounter, out |-> outbox,
               sent |-> sent, reoffered |-> reoffered]

TextElementTypes == {"P", "SPAN", "DIV", "H1", "H2", "H3", "H4", "H5", "H6",
                     "LI", "BLOCKQUOTE", "ARTICLE", "SECTION", "MAIN", "ASIDE",
                     "FIGCAPTION", "LABEL", "TD", "TH"}

NonContentTypes == {"SCRIPT", "STYLE", "NOSCRIPT", "META", "LINK", "INPUT",
                    "TEXTAREA", "SELECT", "BUTTON", "FORM", "HEAD", "TITLE"}

MinTextLen == 10
MaxTextLen == 2000

isElementVisible(e) ==
    InDocument(e) /\ (({e} \cup Ancestors(e)) \cap hidden = {})

isProcessedNever(d, e) == FALSE

\* element.dataset.hsExtId || this.processedElements.has(element)
isProcessed(d, e) == d.ids[e] # NoId \/ e \in d.proc

isChildOfProcessedElement(d, e) ==
    \E p \in Ancestors(e) : isProcessed(d, p)

isTextElement(d, e) ==
    LET len == TextContentLen(e) IN
    /\ len >= MinTextLen /\ len <= MaxTextLen
    /\ Tag(e) \in TextElementTypes
    /\ ~isProcessed(d, e)
    /\ isElementVisible(e)
    /\ Tag(e) \notin NonContentTypes
    /\ ~isChildOfProcessedElement(d, e)

\* the TreeWalker filter on the text node of parent p
acceptNode(d, p) ==
    /\ directLen[p] >= MinTextLen
    /\ ~isProcessed(d, p)
    /\ isTextElement(d, p)

\* parents of the accepted text nodes, in document order, without repeats
findTextElements(d, node) ==
    SetToSortedSeq({p \in Subtree(node) : acceptNode(d, p) /\ isTextElement(d, p)})

alreadyTaggedNever(d, e) == FALSE

\* htmlElement.dataset.hsExtId, as tested by processTextElement
alreadyTagged(d, e) == d.ids[e] # NoId

markElementAfterResponse(d, e, uniqueId) == d

\* htmlElement.dataset.hsExtId = uniqueId; this.processedElements.add(element)
markElement(d, e, uniqueId) ==
    [d EXCEPT !.ids[e] = uniqueId, !.proc = @ \cup {e}]

\* this.classifyText(trimmedText, uniqueId): chrome.runtime.sendMessage
sendClassifyText(d, e, uniqueId) ==
    [d EXCEPT !.out = @ \cup {[elementId |-> uniqueId, element |-> e,
                               text |-> TextContentLen(e)]},
              !.sent[e] = @ + 1]

nextUniqueIdOfTheMillisecond(d) == 1

\* `${++this.uniqueIdCounter}`, the part of the id that tells two elements
\* apart; the Date.now() part is the same for the elements of one batch
nextUniqueId(d) == d.ctr + 1

processTextElement(d, e) ==
    IF TextContentLen(e) < MinTextLen \/ alreadyTagged(d, e)
    THEN [d EXCEPT !.reoffered = IF d.sent[e] > 0 THEN @ \cup {e} ELSE @]
    ELSE LET uniqueId == nextUniqueId(d) IN
         sendClassifyText(markElement([d EXCEPT !.ctr = uniqueId], e, uniqueId),
                          e, uniqueId)

\* elements.forEach(element => this.processTextElement(element))
RECURSIVE processEach(_, _)
processEach(d, elements) ==
    IF elements = <<>> THEN d
    ELSE processEach(processTextElement(d, Head(elements)), Tail(elements))

processNewNode(d, node) == processEach(d, findTextElements(d, node))

\* mutations.forEach(... addedNodes.forEach(node => this.processNewNode(node)))
RECURSIVE processMutations(_, _)
processMutations(d, records) ==
    IF records = <<>> THEN d
    ELSE processMutations(processNewNode(d, Head(records)), Tail(records))

\* elements.slice(index, index + batchSize)
Slice(s, from, to) ==
    [i \in 1..(Min(to, Len(s)) - from) |-> s[from + i]]

Commit(d) ==
    /\ hsExtId' = d.ids
    /\ processedElements' = d.proc
    /\ uniqueIdCounter' = d.ctr
    /\ outbox' = d.out
    /\ sent' = d.sent
    /\ reoffered' = d.reoffered

docVars == <<linked, directLen, hidden>>
dispatchVars == <<hsExtId, processedElements, uniqueIdCounter, outbox, sent, reoffered>>
sweepVars == <<sweepPc, sweepElements, sweepIndex>>
backgroundVars == <<engineVars, requestVars, feedbackVars>>
otherThanContent == <<presentationVars, backgroundVars>>

-----------------------------------------------------------------------------
(* Initial state: the fields of a ContentScript just constructed, over any   *)
(* document the page may have built before the script runs                  *)

ContentInit ==
    /\ linked \in {f \in [Elems -> BOOLEAN] : \A e \in Elems \ MovableElems : f[e]}
    /\ directLen \in {f \in [Elems -> {0, 4, 12, 1995, 2001}] :
                         \A e \in Elems : f[e] \in TextLens(e)}
    /\ hidden = {}
    /\ hsExtId = [e \in Elems |-> NoId]
    /\ processedElements = {}
    /\ uniqueIdCounter = 0
    /\ isEnabled \in BOOLEAN
    /\ sweepPc = "init"
    /\ sweepElements = <<>>
    /\ sweepIndex = 0
    /\ mutationQueue = <<>>
    /\ outbox = {}
    /\ sent = [e \in Elems |-> 0]
    /\ reoffered = {}

NoDelivery == [via |-> "none"]

\* no message has reached the content script and no element is styled
PresentationInit ==
    /\ answered = {}
    /\ runtimeMessages = 0
    /\ indicators = [e \in Elems |-> 0]
    /\ applied = [e \in Elems |-> 0]
    /\ lastDelivery = NoDelivery

moreBatchesNever(index, elements) == FALSE

\* if (index < elements.length) setTimeout(processBatch, 10)
moreBatches(index, elements) == index < Len(elements)

\* one run of the closure processBatch
processBatchStep(elements, index) ==
    LET d == processEach(Dispatcher, Slice(elements, index, index + BatchSize)) IN
    /\ Commit(d)
    /\ sweepElements' = elements
    /\ sweepIndex' = index + BatchSize
    /\ sweepPc' = IF moreBatches(index + BatchSize, elements) THEN "running" ELSE "done"

\* the body of processExistingContent(), `enabled` being this.isEnabled; the
\* first batch runs synchronously inside processElementsInBatches
startSweep(enabled) ==
    IF ~enabled
      THEN /\ sweepPc' = "done"
           /\ UNCHANGED <<sweepElements, sweepIndex, dispatchVars>>
      ELSE LET elements == findTextElements(Dispatcher, Body) IN
           IF Len(elements) > 0
             THEN processBatchStep(elements, 0)
             ELSE /\ sweepPc' = "done"
                  /\ sweepElements' = elements
                  /\ UNCHANGED <<sweepIndex, dispatchVars>>

\* init(): setupMutationObserver(); processExistingContent()
processExistingContent ==
    /\ sweepPc = "init"
    /\ startSweep(isEnabled)
    /\ UNCHANGED <<docVars, isEnabled, mutationQueue>>
    /\ UNCHANGED otherThanContent

\* setTimeout(processBatch, 10) fires
processBatch ==
    /\ sweepPc = "running"
    /\ processBatchStep(sweepElements, sweepIndex)
    /\ UNCHANGED <<docVars, isEnabled, mutationQueue>>
    /\ UNCHANGED otherThanContent

\* the MutationObserver callback, given every record queued since its last run
mutationCallback ==
    /\ sweepPc # "init"
    /\ mutationQueue # <<>>
    /\ mutationQueue' = <<>>
    /\ IF ~isEnabled
         THEN UNCHANGED dispatchVars
         ELSE Commit(processMutations(Dispatcher, mutationQueue))
    /\ UNCHANGED <<docVars, isEnabled, sweepVars>>
    /\ UNCHANGED otherThanContent

\* chrome.runtime.onMessage: extensionToggled
extensionToggled(enabled) ==
    /\ sweepPc # "init"
    /\ isEnabled # enabled
    /\ isEnabled' = enabled
    /\ UNCHANGED <<docVars, dispatchVars, sweepVars, mutationQueue>>
    /\ UNCHANGED otherThanContent

-----------------------------------------------------------------------------
(* The page                                                                 *)

\* the page attaches e (with the subtree already hanging from it); the
\* observer records it when the parent is in the observed document
pageInsert(e) ==
    /\ sweepPc # "init"
    /\ ~linked[e]
    /\ linked' = [linked EXCEPT ![e] = TRUE]
    /\ IF ParentOf(e) = Body \/ InDocument(ParentOf(e))
         THEN /\ Len(mutationQueue) < MaxQueue
              /\ mutationQueue' = Append(mutationQueue, e)
         ELSE UNCHANGED mutationQueue
    /\ UNCHANGED <<directLen, hidden, isEnabled, dispatchVars, sweepVars>>
    /\ UNCHANGED otherThanContent

\* the page detaches e: the record carries no added node
pageRemove(e) ==
    /\ sweepPc # "init"
    /\ linked[e]
    /\ linked' = [linked EXCEPT ![e] = FALSE]
    /\ UNCHANGED <<directLen, hidden, isEnabled, dispatchVars, sweepVars,
                   mutationQueue>>
    /\ UNCHANGED otherThanContent

\* the page rewrites e's text node (characterData is not observed)
pageSetText(e, len) ==
    /\ sweepPc # "init"
    /\ len # directLen[e]
    /\ directLen' = [directLen EXCEPT ![e] = len]
    /\ UNCHANGED <<linked, hidden, isEnabled, dispatchVars, sweepVars, mutationQueue>>
    /\ UNCHANGED otherThanContent

\* the page toggles display:none on e
pageSetHidden(e) ==
    /\ sweepPc # "init"
    /\ hidden' = IF e \in hidden THEN hidden \ {e} ELSE hidden \cup {e}
    /\ UNCHANGED <<linked, directLen, isEnabled, dispatchVars, sweepVars,
                   mutationQueue>>
    /\ UNCHANGED otherThanContent


ContentNext ==
    \/ processExistingContent
    \/ processBatch
    \/ mutationCallback
    \/ \E b \in BOOLEAN : extensionToggled(b)
    \/ \E e \in MovableElems : pageInsert(e)
    \/ \E e \in MovableElems : pageRemove(e)
    \/ \E e \in EditableElems : \E len \in TextLens(e) : pageSetText(e, len)
    \/ \E e \in HideableElems : pageSetHidden(e)

\* the content script over a page that attaches and detaches subtrees and
\* changes nothing else
ExtractionNext ==
    \/ processExistingContent
    \/ processBatch
    \/ mutationCallback
    \/ \E e \in MovableElems : pageInsert(e)
    \/ \E e \in MovableElems : pageRemove(e)

-----------------------------------------------------------------------------
(* ContentScript: classification results and their presentation            *)

\* bound: runtime messages carrying a success field in one behaviour
MaxRuntimeMessages == 1

NoElement == 0 - 1
NoClassification == "none"
VerdictLabels == {"hateful", "normal"}

\* what the callback of chrome.runtime.sendMessage is called with: lastError
\* set, a {success: false, error, elementId}, or a {success: true,
\* classification, elementId, originalText}
ClassificationResponses(request) ==
    {[kind |-> "lastError", success |-> FALSE, classification |-> NoClassification,
      elementId |-> request.elementId],
     [kind |-> "response", success |-> FALSE, classification |-> NoClassification,
      elementId |-> request.elementId]}
    \cup {[kind |-> "response", success |-> TRUE, classification |-> label,
           elementId |-> request.elementId] : label \in VerdictLabels}

\* runtime messages with no action the listener knows and a success field:
\* any classification or none, the id of a request, a foreign id or none
RuntimeMessages ==
    [kind : {"response"}, success : BOOLEAN,
     classification : VerdictLabels \cup {NoClassification},
     elementId : 0..(uniqueIdCounter + 1)]

querySelectorAnywhere(elementId) ==
    LET matches == {e \in Elems : hsExtId[e] = elementId}
    IN IF matches = {} THEN NoElement ELSE CHOOSE e \in matches : \A o \in matches : e <= o

\* document.querySelector(`[data-hs-ext-id="${elementId}"]`): the first
\* element of the document carrying the id
querySelector(elementId) ==
    LET matches == {e \in Elems : hsExtId[e] = elementId /\ InDocument(e)}
    IN IF matches = {} THEN NoElement ELSE CHOOSE e \in matches : \A o \in matches : e <= o

\* the child elements of e
Children(e) == {c \in Elems : ParentOf(c) = e /\ linked[c]}

\* applyHatefulStyling(element, classification): innerHTML = '' discards the
\* text node and the child elements of the element (a wrapper and indicator
\* of an earlier run among them); the wrapper appended holds the original
\* text twice (blurredText, readableText) and the indicator '!'. The text
\* now sits in spans below the element, which carries an id: the walker's
\* filter rejects them (isChildOfProcessedElement), so that the observer's
\* record of the wrapper has no effect and is left out of mutationQueue.
applyHatefulStyling(element) ==
    LET originalText == TextContentLen(element) IN
    /\ linked' = [c \in Elems |-> IF c \in Subtree(element) \ {element}
                                  THEN FALSE ELSE linked[c]]
    /\ directLen' = [directLen EXCEPT ![element] = originalText + originalText + 1]
    /\ indicators' = [indicators EXCEPT ![element] = 1]
    /\ applied' = [applied EXCEPT ![element] = @ + 1]

isHatefulLabelAnyVerdict(label) == TRUE

\* classification.label === 'hateful'
isHatefulLabel(label) == label = "hateful"

\* handleClassificationResult(response)
handleClassificationResult(response, via) ==
    IF response.classification = NoClassification \/ response.elementId = NoId
    THEN /\ lastDelivery' = [via |-> via, elementId |-> response.elementId,
                             label |-> response.classification]
         /\ UNCHANGED <<linked, directLen, indicators, applied>>
    ELSE LET element == querySelector(response.elementId) IN
         /\ lastDelivery' = [via |-> via, elementId |-> response.elementId,
                             label |-> response.classification]
         /\ IF element # NoElement /\ isHatefulLabel(response.classification)
              THEN applyHatefulStyling(element)
              ELSE UNCHANGED <<linked, directLen, indicators, applied>>

\* the callback classifyText passed to chrome.runtime.sendMessage
sendMessageCallback(request, response) ==
    /\ request \in outbox
    /\ request.elementId \notin answered
    /\ answered' = answered \cup {request.elementId}
    /\ IF response.kind # "lastError" /\ response.success
         THEN handleClassificationResult(response, "callback")
         ELSE /\ lastDelivery' = [via |-> "callback", elementId |-> response.elementId,
                                  label |-> response.classification]
              /\ UNCHANGED <<linked, directLen, indicators, applied>>
    /\ UNCHANGED <<hidden, isEnabled, dispatchVars, sweepVars, mutationQueue,
                   runtimeMessages>>
    /\ UNCHANGED backgroundVars

\* chrome.runtime.onMessage, default branch: message.success !== undefined
onMessageDefault(message) ==
    /\ runtimeMessages < MaxRuntimeMessages
    /\ runtimeMessages' = runtimeMessages + 1
    /\ handleClassificationResult(message, "onMessage")
    /\ UNCHANGED <<hidden, isEnabled, dispatchVars, sweepVars, mutationQueue, answered>>
    /\ UNCHANGED backgroundVars

\* a page of the elements 1, 2, 3 and 8, the script enabled
PresentationContentInit ==
    /\ linked = [e \in Elems |-> e \in {1, 2, 3, 8}]
    /\ directLen \in {f \in [Elems -> {0, 4, 12, 1995, 2001}] :
                         \A e \in Elems : f[e] \in TextLens(e)}
    /\ hidden = {}
    /\ hsExtId = [e \in Elems |-> NoId]
    /\ processedElements = {}
    /\ uniqueIdCounter = 0
    /\ isEnabled = TRUE
    /\ sweepPc = "init"
    /\ sweepElements = <<>>
    /\ sweepIndex = 0
    /\ mutationQueue = <<>>
    /\ outbox = {}
    /\ sent = [e \in Elems |-> 0]
    /\ reoffered = {}

PresentationNext ==
    \/ processExistingContent
    \/ \E e \in MovableElems : pageRemove(e)
    \/ \E request \in outbox :
           \E response \in ClassificationResponses(request) :
               sendMessageCallback(request, response)
    \/ \E message \in RuntimeMessages : onMessageDefault(message)

-----------------------------------------------------------------------------
(* BackgroundServiceWorker: model lifecycle and classification              *)
(* Scores, confidences and thresholds are percentages (0.82 is 82).         *)

otherThanEngine == <<contentVars, presentationVars, requestVars, feedbackVars>>

Null == "null"
NoCall == [kind |-> "none"]
NoPending == [text |-> Null]
\* the null classifyWithAI returns from its catch block
NullResult == [label |-> Null]

\* labels are sequences of characters, so that String.prototype.includes
\* and toLowerCase are computed and not assumed
L_hate == <<"h", "a", "t", "e">>
L_offensive == <<"o", "f", "f", "e", "n", "s", "i", "v", "e">>
L_normal == <<"n", "o", "r", "m", "a", "l">>
L_not_hate == <<"n", "o", "t", "-", "h", "a", "t", "e">>
L_not_offensive == <<"n", "o", "t", "-">> \o L_offensive
L_toxic == <<"t", "o", "x", "i", "c">>
L_TOXIC == <<"T", "O", "X", "I", "C">>
L_severe_toxic == <<"s", "e", "v", "e", "r", "e", "_">> \o L_toxic
L_obscene == <<"o", "b", "s", "c", "e", "n", "e">>
L_threat == <<"t", "h", "r", "e", "a", "t">>
L_insult == <<"i", "n", "s", "u", "l", "t">>
L_identity_hate == <<"i", "d", "e", "n", "t", "i", "t", "y", "_">> \o L_hate

Not(label) == <<"n", "o", "t", "-">> \o label

CardiffModel == "cardiffnlp/twitter-roberta-base-hate"
ToxicBertModel == "unitary/toxic-bert"
FacebookModel == "facebook/roberta-hate-speech-detector"
UnlistedModel == "some/unlisted-model"

HATE_SPEECH_MODELS == <<
    [name |-> "Twitter Hate Speech Detector", modelId |-> CardiffModel,
     hateful |-> {L_hate, L_offensive},
     normal |-> {L_normal, L_not_hate, L_not_offensive}],
    [name |-> "Toxic Comment Classifier", modelId |-> ToxicBertModel,
     hateful |-> {L_toxic, L_severe_toxic, L_obscene, L_threat, L_insult,
                  L_identity_hate},
     normal |-> {Not(L_toxic), Not(L_severe_toxic), Not(L_obscene),
                 Not(L_threat), Not(L_insult), Not(L_identity_hate)}],
    [name |-> "Hate Speech Detector", modelId |-> FacebookModel,
     hateful |-> {L_hate, L_offensive},
     normal |-> {L_normal, L_not_hate, L_not_offensive}] >>

DEFAULT_MODEL == HATE_SPEECH_MODELS[1]

\* HATE_SPEECH_MODELS.find(model => model.modelId === selectedModel) || DEFAULT_MODEL
getCurrentModelConfig(selectedModel) ==
    IF \E i \in 1..Len(HATE_SPEECH_MODELS) : HATE_SPEECH_MODELS[i].modelId = selectedModel
    THEN LET i == CHOOSE j \in 1..Len(HATE_SPEECH_MODELS) :
                     /\ HATE_SPEECH_MODELS[j].modelId = selectedModel
                     /\ \A k \in 1..(j - 1) : HATE_SPEECH_MODELS[k].modelId # selectedModel
         IN HATE_SPEECH_MODELS[i]
    ELSE DEFAULT_MODEL

\* String.prototype.toLowerCase, on the letters the raw labels use
LowerChar(c) == CASE c = "T" -> "t" [] c = "O" -> "o" [] c = "X" -> "x"
                  [] c = "I" -> "i" [] c = "C" -> "c" [] OTHER -> c

toLowerCase(label) == [i \in 1..Len(label) |-> LowerChar(label[i])]

\* String.prototype.includes
includes(label, part) ==
    \E i \in 0..(Len(label) - Len(part)) : SubSeq(label, i + 1, i + Len(part)) = part

\* labels.some(x => label.includes(x))
someIncluded(labels, label) == \E x \in labels : includes(label, x)

meetsThresholdInverted(maxConfidence, threshold) == maxConfidence <= threshold

\* maxConfidence >= this.settings.confidence
meetsThreshold(maxConfidence, threshold) == maxConfidence >= threshold

\* the body of `for (const classification of result)`
scanStep(cfg, st, item) ==
    LET label == toLowerCase(item.label)
        confidence == item.score
        st1 == IF someIncluded(cfg.hateful, label) /\ confidence > st.maxConfidence
               THEN [maxConfidence |-> confidence, detectedLabel |-> label,
                     isHateful |-> TRUE]
               ELSE st
    IN  IF /\ someIncluded(cfg.normal, label)
           /\ confidence > st1.maxConfidence
           /\ ~st1.isHateful
        THEN [maxConfidence |-> confidence, detectedLabel |-> label,
              isHateful |-> FALSE]
        ELSE st1

RECURSIVE scanAll(_, _, _)
scanAll(cfg, st, items) ==
    IF items = <<>> THEN st
    ELSE scanAll(cfg, scanStep(cfg, st, Head(items)), Tail(items))

\* the `else if (result && typeof result === 'object')` branch
scanSingle(cfg, item) ==
    LET label == toLowerCase(item.label) IN
    [maxConfidence |-> item.score, detectedLabel |-> label,
     isHateful |-> someIncluded(cfg.hateful, label)]

ScanStart == [maxConfidence |-> 0, detectedLabel |-> L_normal, isHateful |-> FALSE]

scanResult(cfg, result) ==
    CASE result.kind = "array" -> scanAll(cfg, ScanStart, result.items)
      [] result.kind = "object" -> scanSingle(cfg, result.item)
      [] OTHER -> ScanStart

MaxHatefulConfidence == 95
MinNormalConfidence == 50
DefaultConfidence == 50

Max(a, b) == IF a > b THEN a ELSE b

\* the verdict built from the scan: hateful when a hateful label was
\* detected with a confidence that meets the threshold, normal otherwise
verdictOf(cfg, st, threshold) ==
    IF st.isHateful /\ meetsThreshold(st.maxConfidence, threshold)
    THEN [label |-> "hateful",
          confidence |-> Min(MaxHatefulConfidence, st.maxConfidence),
          explanation |-> [kind |-> "detected", label |-> st.detectedLabel,
                           percent |-> st.maxConfidence, model |-> cfg.name],
          method |-> "ai"]
    ELSE [label |-> "normal",
          confidence |-> Max(MinNormalConfidence, st.maxConfidence),
          explanation |-> [kind |-> "classified", label |-> st.detectedLabel,
                           percent |-> st.maxConfidence, model |-> cfg.name],
          method |-> "ai"]

\* classifyWithAI once `await this.classifier(processedText)` has returned
\* `result`
classifyWithAI(result, selectedModel, threshold) ==
    IF result.kind = "throw" THEN NullResult
    ELSE LET cfg == getCurrentModelConfig(selectedModel)
         IN verdictOf(cfg, scanResult(cfg, result), threshold)

defaultClassificationZero ==
    [label |-> "normal", confidence |-> 0,
     explanation |-> [kind |-> "unavailable"], method |-> "ai"]

\* the result classifyText returns when the AI model is not available
defaultClassification ==
    [label |-> "normal", confidence |-> DefaultConfidence,
     explanation |-> [kind |-> "unavailable"], method |-> "ai"]

\* Unloaded -> Loading -> {Loaded | Failed}, read off the two flags
EngineState ==
    IF isModelLoaded THEN "Loaded"
    ELSE IF isModelLoading THEN "Loading"
    ELSE IF bgPc = "new" THEN "Unloaded"
    ELSE "Failed"

\* ---- inputs
Thresholds == {50, 82, 90}
Models == {CardiffModel, ToxicBertModel, UnlistedModel}
Texts == {"You are an idiot and I hate this"}
\* items of one inference result
MaxResultLen == 2
RawLabels == {L_hate, L_normal, L_not_hate, L_TOXIC}
Scores == {40, 82, 96}
Items == [label : RawLabels, score : Scores]
RECURSIVE SeqsUpTo(_, _)
SeqsUpTo(S, n) ==
    IF n = 0 THEN {<<>>}
    ELSE LET shorter == SeqsUpTo(S, n - 1)
         IN shorter \cup {Append(q, x) : q \in {r \in shorter : Len(r) = n - 1}, x \in S}

InferenceResults ==
    {[kind |-> "array", items |-> q] : q \in SeqsUpTo(Items, MaxResultLen)}
      \cup {[kind |-> "object", item |-> x] : x \in Items}
      \cup {[kind |-> "throw"], [kind |-> "other"]}

NoRequest == [action |-> "none"]
NoResponse == [sent |-> FALSE]

\* no classifyText message has been received; the two keys are absent from
\* chrome.storage.local, read as `result.recentDetections || []` and
\* `result.stats || { detected: 0, filtered: 0 }`
RequestInit ==
    /\ requestInFlight = NoRequest
    /\ classified = {}
    /\ lastResponse = NoResponse
    /\ recentDetections = <<>>
    /\ detectionStats = [detected |-> 0, filtered |-> 0]
    /\ broadcasts = {}
    /\ storeCalls = [inFlight |-> {}, begun |-> 0, hateful |-> 0,
                     clearedUnder |-> FALSE]
    /\ routed = [pc |-> "idle", message |-> NoRequest, responses |-> <<>>]

\* preprocessText has not been called
NoPreprocessCall == [pc |-> "idle", text |-> <<>>, processed |-> <<>>]

\* the fields of a BackgroundServiceWorker just constructed
EngineFields ==
    /\ RequestInit
    /\ bgPc = "new"
    /\ settings = [enabled |-> TRUE, confidence |-> 70, selectedModel |-> CardiffModel]
    /\ classifier = Null
    /\ isModelLoaded = FALSE
    /\ isModelLoading = FALSE
    /\ loadingModel = Null
    /\ pipelineCalls = 0
    /\ pipelineSettled = 0
    /\ pending = NoPending
    /\ lastCall = NoCall
    /\ inferenceThrew = FALSE

\* a BackgroundServiceWorker just constructed, nothing classified yet
EngineConstructed ==
    /\ preprocessCall = NoPreprocessCall
    /\ EngineFields

\* if (this.isModelLoading || this.isModelLoaded) return
loadAIModelReturnsEarly == isModelLoading \/ isModelLoaded

\* init(): loadSettings() from chrome.storage.sync, setupMessageRouter(), and
\* loadAIModel() up to its await of pipeline()
bgInit(enabled, confidence, selectedModel) ==
    /\ bgPc = "new"
    /\ bgPc' = "ready"
    /\ settings' = [enabled |-> enabled, confidence |-> confidence,
                    selectedModel |-> selectedModel]
    /\ IF loadAIModelReturnsEarly
         THEN UNCHANGED <<isModelLoading, loadingModel, pipelineCalls>>
         ELSE /\ isModelLoading' = TRUE
              /\ loadingModel' = selectedModel
              /\ pipelineCalls' = pipelineCalls + 1
    /\ UNCHANGED <<classifier, isModelLoaded, pipelineSettled, pending, lastCall,
                   inferenceThrew, otherThanEngine>>

isModelLoadingAfterLoadStuck == TRUE

\* finally { this.isModelLoading = false }
isModelLoadingAfterLoad == FALSE

\* pipeline('text-classification', modelName, ...) resolves
loadSucceeds ==
    /\ isModelLoading
    /\ classifier' = loadingModel
    /\ isModelLoaded' = TRUE
    /\ isModelLoading' = isModelLoadingAfterLoad
    /\ loadingModel' = Null
    /\ pipelineSettled' = pipelineSettled + 1
    /\ UNCHANGED <<bgPc, settings, pipelineCalls, pending, lastCall, inferenceThrew,
                   otherThanEngine>>

\* pipeline(...) rejects
loadFails ==
    /\ isModelLoading
    /\ isModelLoaded' = FALSE
    /\ isModelLoading' = isModelLoadingAfterLoad
    /\ loadingModel' = Null
    /\ pipelineSettled' = pipelineSettled + 1
    /\ UNCHANGED <<bgPc, settings, classifier, pipelineCalls, pending, lastCall,
                   inferenceThrew, otherThanEngine>>

\* handleSettingsUpdate: this.settings = {...this.settings, ...message.settings}
handleSettingsUpdate(newSettings) ==
    /\ bgPc = "ready"
    /\ settings' = [k \in DOMAIN settings |->
                       IF k \in DOMAIN newSettings THEN newSettings[k] ELSE settings[k]]
    /\ settings' # settings
    /\ lastCall' = NoCall
    /\ UNCHANGED <<bgPc, classifier, isModelLoaded, isModelLoading, loadingModel,
                   pipelineCalls, pipelineSettled, pending, inferenceThrew,
                   otherThanEngine>>

SettingsPayloads ==
    [confidence : Thresholds] \cup [selectedModel : Models] \cup [enabled : BOOLEAN]

\* the call of classifyText that returns the default result at once
defaultCall(text) ==
    [kind |-> "default", text |-> text, engine |-> EngineState,
     awaited |-> FALSE, verdict |-> defaultClassification]

\* classifyText(text), up to its first await: either the classifier is
\* called, or the default result is returned at once
classifyText(text) ==
    /\ bgPc = "ready"
    /\ pending = NoPending
    /\ IF isModelLoaded /\ classifier # Null
         THEN /\ pending' = [text |-> text, engine |-> EngineState]
              /\ lastCall' = NoCall
         ELSE /\ lastCall' = defaultCall(text)
              /\ UNCHANGED pending
    /\ UNCHANGED <<bgPc, settings, classifier, isModelLoaded, isModelLoading,
                   loadingModel, pipelineCalls, pipelineSettled, inferenceThrew,
                   otherThanEngine>>

classifyTextResultAlarm(aiResult) ==
    IF aiResult = NullResult
    THEN [defaultClassification EXCEPT !.label = "hateful"]
    ELSE aiResult

\* what classifyText returns once classifyWithAI has returned: `if (aiResult)
\* return aiResult`, and the default result otherwise
classifyTextResult(aiResult) ==
    IF aiResult = NullResult THEN defaultClassification ELSE aiResult

\* the call of classifyText that returns once this.classifier(...) has
\* settled with `result`
thresholdAtConstruction == 70

\* `maxConfidence >= this.settings.confidence`: the field is read when the
\* comparison is made, after the inference has settled
thresholdAtDecision == settings.confidence

returnedCall(result) ==
    LET aiResult == classifyWithAI(result, settings.selectedModel, thresholdAtDecision)
    IN [kind |-> IF aiResult = NullResult THEN "degraded" ELSE "ai",
        text |-> pending.text, engine |-> pending.engine,
        awaited |-> TRUE, result |-> result,
        afterThrow |-> inferenceThrew,
        threshold |-> settings.confidence,
        selectedModel |-> settings.selectedModel,
        verdict |-> classifyTextResult(aiResult)]

\* this.classifier(processedText) settles with `result`; classifyWithAI and
\* classifyText run to their return
classifierReturns(result) ==
    /\ pending # NoPending
    /\ pending' = NoPending
    /\ inferenceThrew' = (inferenceThrew \/ result.kind = "throw")
    /\ lastCall' = returnedCall(result)
    /\ UNCHANGED <<bgPc, settings, classifier, isModelLoaded, isModelLoading,
                   loadingModel, pipelineCalls, pipelineSettled, otherThanEngine>>

EngineNext ==
    \/ \E en \in BOOLEAN : \E th \in Thresholds : \E mo \in Models : bgInit(en, th, mo)
    \/ loadSucceeds
    \/ loadFails
    \/ \E newSettings \in SettingsPayloads : handleSettingsUpdate(newSettings)
    \/ \E text \in Texts : classifyText(text)
    \/ \E result \in InferenceResults : classifierReturns(result)

-----------------------------------------------------------------------------
(* BackgroundServiceWorker.handleClassificationRequest                      *)

\* bound: detections counted in stats in one behaviour
MaxDetected == 2

\* handleMessage has been called with `message` and has not yet returned
Routed(message) == [pc |-> "awaiting", message |-> message, responses |-> <<>>]

\* sendResponse({success, ..., elementId}): the last statement a handler runs
sendResponse(call, success, elementId) ==
    [call EXCEPT !.pc = "done",
                 !.responses = Append(@, [success |-> success, elementId |-> elementId])]

\* `.slice(0, 50)` of storeDetection
DetectionsCap == 50

\* the values message.text may hold, as a JavaScript type and a literal
ValidText == [type |-> "string", value |-> "You are an idiot and I hate this"]
TextValues ==
    {[type |-> "undefined", value |-> "undefined"],
     [type |-> "null", value |-> "null"],
     [type |-> "string", value |-> ""],
     [type |-> "number", value |-> "0"],
     [type |-> "number", value |-> "42"],
     [type |-> "object", value |-> "{}"],
     ValidText}

ClassifyMessages == [action : {"classifyText"}, text : TextValues, elementId : {1, 2}]

\* ToBoolean
truthy(v) ==
    CASE v.type = "undefined" -> FALSE
      [] v.type = "null" -> FALSE
      [] v.type = "string" -> v.value # ""
      [] v.type = "number" -> v.value # "0"
      [] OTHER -> TRUE

\* the typeof operator
typeof(v) == IF v.type = "null" THEN "object" ELSE v.type

isInvalidTextMissingOnly(text) == text.type = "undefined"

\* !text || typeof text !== 'string'
isInvalidText(text) == ~truthy(text) \/ typeof(text) # "string"

\* the single inference results the handler is exercised with
RequestResults == {r \in InferenceResults : r.kind \in {"object", "throw"}}

\* storeDetection(text, classification), its two storage calls succeeding
storeDetection(text) ==
    /\ LET updatedDetections == <<text>> \o recentDetections
       IN recentDetections' = SubSeq(updatedDetections, 1,
                                     Min(Len(updatedDetections), DetectionsCap))
    /\ detectionStats' = [detected |-> detectionStats.detected + 1,
                          filtered |-> detectionStats.filtered + 1]
    /\ broadcasts' = broadcasts \cup {"statsUpdated"}

\* the handler from classifyText's return on: storeDetection for a hateful
\* verdict, then sendResponse
respond(message, classification) ==
    /\ IF classification.label = "hateful"
         THEN storeDetection(message.text)
         ELSE UNCHANGED <<recentDetections, detectionStats, broadcasts>>
    /\ routed' = IF routed.message = message /\ routed.pc = "awaiting"
                   THEN sendResponse(routed, TRUE, message.elementId)
                   ELSE sendResponse(Routed(message), TRUE, message.elementId)
    /\ lastResponse' = [sent |-> TRUE, request |-> message, success |-> TRUE,
                        error |-> Null, classification |-> classification.label,
                        elementId |-> message.elementId]

\* handleClassificationRequest(message, sendResponse), up to its first
\* await; requests are handled one at a time
handleClassificationRequest(message) ==
    /\ bgPc = "ready"
    /\ IF isInvalidText(message.text)
         THEN /\ lastResponse' = [sent |-> TRUE, request |-> message, success |-> FALSE,
                                  error |-> "Invalid text provided",
                                  classification |-> NoClassification,
                                  elementId |-> message.elementId]
              /\ routed' = sendResponse(Routed(message), FALSE, message.elementId)
              /\ UNCHANGED <<requestInFlight, classified, recentDetections,
                             detectionStats, broadcasts, pending, lastCall>>
         ELSE /\ pending = NoPending
              /\ detectionStats.detected < MaxDetected
              /\ classified' = classified \cup {message.text}
              /\ IF isModelLoaded /\ classifier # Null
                   THEN /\ pending' = [text |-> message.text.value, engine |-> EngineState]
                        /\ lastCall' = NoCall
                        /\ requestInFlight' = message
                        /\ lastResponse' = NoResponse
                        /\ routed' = Routed(message)
                        /\ UNCHANGED <<recentDetections, detectionStats, broadcasts>>
                   ELSE /\ lastCall' = defaultCall(message.text.value)
                        /\ respond(message, defaultClassification)
                        /\ UNCHANGED <<pending, requestInFlight>>
    /\ UNCHANGED <<bgPc, settings, classifier, isModelLoaded, isModelLoading,
                   loadingModel, pipelineCalls, pipelineSettled, inferenceThrew>>
    /\ UNCHANGED <<storeCalls, preprocessCall, contentVars, presentationVars,
                   feedbackVars>>

\* this.classifier(processedText) settles with `result` and the handler
\* runs to its end
handlerClassifierReturns(result) ==
    /\ requestInFlight # NoRequest
    /\ pending # NoPending
    /\ pending' = NoPending
    /\ inferenceThrew' = (inferenceThrew \/ result.kind = "throw")
    /\ lastCall' = returnedCall(result)
    /\ requestInFlight' = NoRequest
    /\ respond(requestInFlight, returnedCall(result).verdict)
    /\ UNCHANGED <<classified, storeCalls, preprocessCall>>
    /\ UNCHANGED <<bgPc, settings, classifier, isModelLoaded, isModelLoading,
                   loadingModel, pipelineCalls, pipelineSettled>>
    /\ UNCHANGED <<contentVars, presentationVars, feedbackVars>>

RequestNext ==
    \/ \E en \in BOOLEAN : \E th \in Thresholds : \E mo \in Models : bgInit(en, th, mo)
    \/ loadSucceeds
    \/ loadFails
    \/ \E message \in ClassifyMessages : handleClassificationRequest(message)
    \/ \E result \in RequestResults : handlerClassifierReturns(result)

-----------------------------------------------------------------------------
(* BackgroundServiceWorker.handleMessage: the other actions                 *)

\* the actions handleMessage knows besides classifyText
AwaitingActions == {"updateSettings", "clearStats", "submitFeedback",
                    "getFeedbackStats", "exportFeedback", "clearFeedback"}
ImmediateActions == {"getSettings", "openSidePanel"}

\* messages other than classifyText: the known actions, an action the switch
\* does not know, a submitFeedback without its feedback object, and a message
\* that is no object (null), on which `message.action` throws
OtherMessages ==
    [action : AwaitingActions \cup ImmediateActions \cup {"bogus"},
     isObject : {TRUE}, hasPayload : {TRUE}, enabled : {TRUE}]
      \cup {[action |-> "updateSettings", isObject |-> TRUE, hasPayload |-> TRUE,
              enabled |-> FALSE],
             [action |-> "submitFeedback", isObject |-> TRUE, hasPayload |-> FALSE,
              enabled |-> TRUE],
             [action |-> "null", isObject |-> FALSE, hasPayload |-> FALSE,
              enabled |-> TRUE]}

\* the handlers that catch what their awaited call throws and answer
\* {success: false, error} themselves
CatchingActions == {"submitFeedback", "getFeedbackStats", "exportFeedback",
                    "clearFeedback"}

defaultBranchSilent(call) == [call EXCEPT !.pc = "done"]

\* default: sendResponse({ success: false, error: 'Unknown action' })
defaultBranch(call) == sendResponse(call, FALSE, NoId)

\* catch (error) { sendResponse({ success: false, error }) } of handleMessage
handleMessageCatch(call) == sendResponse(call, FALSE, NoId)

\* handleMessage(message, sender, sendResponse) for a message other than
\* classifyText, up to the first await of its handler or to its return
handleOtherMessage(message) ==
    /\ bgPc = "ready"
    /\ routed.pc # "awaiting"
    /\ routed' =
          IF ~message.isObject THEN handleMessageCatch(Routed(message))
          ELSE IF message.action \in ImmediateActions
            THEN sendResponse(Routed(message), TRUE, NoId)
          ELSE IF message.action = "submitFeedback" /\ ~message.hasPayload
            \* message.feedback.metadata throws inside the handler's try
            THEN sendResponse(Routed(message), FALSE, NoId)
          ELSE IF message.action \in AwaitingActions THEN Routed(message)
          ELSE defaultBranch(Routed(message))
    /\ settings' = IF message.isObject /\ message.action = "updateSettings"
                     THEN [settings EXCEPT !.enabled = message.enabled]
                     ELSE settings
    /\ UNCHANGED <<bgPc, classifier, isModelLoaded, isModelLoading, loadingModel,
                   pipelineCalls, pipelineSettled, pending, lastCall, inferenceThrew>>
    /\ UNCHANGED <<requestInFlight, classified, lastResponse, recentDetections,
                   detectionStats, broadcasts, storeCalls, preprocessCall>>
    /\ UNCHANGED <<contentVars, presentationVars, feedbackVars>>

\* the call the handler awaits settles (chrome.storage.sync.set of
\* saveSettings, chrome.storage.local.set of clearStats, a method of
\* FeedbackManager, whose own steps are those of FeedbackNext) and the handler
\* runs to its end. saveSettings and clearStats catch a rejection themselves.
routedOperationSettles(rejects) ==
    /\ routed.pc = "awaiting"
    /\ routed.message.action \in AwaitingActions
    /\ routed' = IF rejects /\ routed.message.action \in CatchingActions
                   THEN sendResponse(routed, FALSE, NoId)
                   ELSE sendResponse(routed, TRUE, NoId)
    /\ IF routed.message.action = "clearStats" /\ ~rejects
         THEN /\ recentDetections' = <<>>
              /\ detectionStats' = [detected |-> 0, filtered |-> 0]
         ELSE UNCHANGED <<recentDetections, detectionStats>>
    /\ UNCHANGED <<requestInFlight, classified, lastResponse, broadcasts, storeCalls>>
    /\ UNCHANGED <<preprocessCall, engineVars, contentVars, presentationVars,
                   feedbackVars>>

RouterNext ==
    \/ bgInit(TRUE, 82, DEFAULT_MODEL.modelId)
    \/ loadSucceeds
    \/ loadFails
    \/ \E message \in ClassifyMessages : handleClassificationRequest(message)
    \/ \E result \in RequestResults : handlerClassifierReturns(result)
    \/ \E message \in OtherMessages : handleOtherMessage(message)
    \/ \E rejects \in BOOLEAN : routedOperationSettles(rejects)

\* the content script at rest, for the specifications of the background
ContentIdle ==
    /\ linked = [e \in Elems |-> TRUE]
    /\ directLen = [e \in Elems |-> 12]
    /\ hidden = {}
    /\ hsExtId = [e \in Elems |-> NoId]
    /\ processedElements = {}
    /\ uniqueIdCounter = 0
    /\ isEnabled = TRUE
    /\ sweepPc = "init"
    /\ sweepElements = <<>>
    /\ sweepIndex = 0
    /\ mutationQueue = <<>>
    /\ outbox = {}
    /\ sent = [e \in Elems |-> 0]
    /\ reoffered = {}
    /\ PresentationInit

otherThanFeedback == <<contentVars, presentationVars, engineVars, requestVars>>

-----------------------------------------------------------------------------
(* FeedbackManager: the feedback log and its aggregate, two keys of         *)
(* chrome.storage.local.  Every `await chrome.storage.local.*` is a suspend *)
(* point: a call is one action up to each of them, the storage operation    *)
(* takes effect as it is issued, and the call resumes in a later action.    *)

feedbackKey == "sentinel_hg_feedback"
statsKey == "sentinel_hg_feedback_stats"

FeedbackTypes == {"false_positive", "false_negative", "correct"}

\* chrome.storage.local holds for each key no value or one value
Absent == {}
Stored(value) == {value}

\* result[key] || fallback
getOr(area, key, fallback) ==
    IF area[key] = Absent THEN fallback ELSE CHOOSE value \in area[key] : TRUE

\* a fraction in lowest terms <<numerator, denominator>>: the quotient of
\* two counters
RECURSIVE GCD(_, _)
GCD(a, b) == IF b = 0 THEN a ELSE GCD(b, a % b)

Ratio(n, d) == LET g == GCD(n, d) IN <<n \div g, d \div g>>

Zero == <<0, 1>>

getDefaultStats ==
    [totalFeedback |-> 0, falsePositives |-> 0, falseNegatives |-> 0,
     correctClassifications |-> 0, accuracy |-> Zero, recentFeedback |-> <<>>]

\* list.slice(0, end)
sliceTo(list, end) == SubSeq(list, 1, Min(Len(list), end))

capLogUnbounded(list) == list

\* [feedbackData, ...existingFeedback].slice(0, 1000)
capLog(list) == sliceTo(list, FeedbackCap)

\* getFeedbackStats once its storage read has returned `area`
getFeedbackStats(area) ==
    LET stats == getOr(area, statsKey, getDefaultStats)
        recentFeedback == getOr(area, feedbackKey, <<>>)
    IN [stats EXCEPT !.recentFeedback = sliceTo(recentFeedback, RecentCap)]

\* getAllFeedback once its storage read has returned `area`
getAllFeedback(area) == getOr(area, feedbackKey, <<>>)

incrementForCorrectOnly(stats, type) ==
    [stats EXCEPT !.correctClassifications = @ + 1]

\* switch (newFeedback.userFeedback.type)
incrementFor(stats, type) ==
    CASE type = "false_positive" -> [stats EXCEPT !.falsePositives = @ + 1]
      [] type = "false_negative" -> [stats EXCEPT !.falseNegatives = @ + 1]
      [] type = "correct" -> [stats EXCEPT !.correctClassifications = @ + 1]
      [] OTHER -> stats

accuracyOfFalsePositives(stats) ==
    LET totalClassified == stats.falsePositives + stats.falseNegatives
                             + stats.correctClassifications
    IN IF totalClassified > 0 THEN Ratio(stats.falsePositives, totalClassified)
       ELSE Zero

\* totalClassified > 0 ? correctClassifications / totalClassified : 0
accuracyOf(stats) ==
    LET totalClassified == stats.falsePositives + stats.falseNegatives
                             + stats.correctClassifications
    IN IF totalClassified > 0 THEN Ratio(stats.correctClassifications, totalClassified)
       ELSE Zero

\* updateStats between its read and its write
updatedStats(currentStats, newFeedback) ==
    LET counted == incrementFor([currentStats EXCEPT !.totalFeedback = @ + 1],
                                newFeedback.type)
    IN [counted EXCEPT !.accuracy = accuracyOf(counted)]

\* ---- JSON.stringify / JSON.parse, over a string of tokens
Tok(t, v) == [t |-> t, v |-> v]
Punct(c) == Tok("punct", c)
Key(name) == Tok("key", name)
IsPunct(tok, c) == tok.t = "punct" /\ tok.v = c

stringifyFeedbackData(entry) ==
    << Punct("{"), Key("id"), Tok("number", entry.id),
       Key("type"), Tok("string", entry.type), Punct("}") >>

RECURSIVE stringifyEach(_)
stringifyEach(list) ==
    IF list = <<>> THEN <<>>
    ELSE stringifyFeedbackData(Head(list)) \o stringifyEach(Tail(list))

stringifyList(list) == <<Punct("[")>> \o stringifyEach(list) \o <<Punct("]")>>

stringifyStats(stats) ==
    << Punct("{"),
       Key("totalFeedback"), Tok("number", stats.totalFeedback),
       Key("falsePositives"), Tok("number", stats.falsePositives),
       Key("falseNegatives"), Tok("number", stats.falseNegatives),
       Key("correctClassifications"), Tok("number", stats.correctClassifications),
       Key("accuracy"), Tok("number", stats.accuracy),
       Key("recentFeedback") >> \o stringifyList(stats.recentFeedback)
       \o << Punct("}") >>

\* JSON.stringify(exportData, null, 2)
stringify(exportData) ==
    << Punct("{"), Key("exportDate"), Tok("string", exportData.exportDate),
       Key("stats") >> \o stringifyStats(exportData.stats)
       \o << Key("feedback") >> \o stringifyList(exportData.feedback)
       \o << Punct("}") >>

RECURSIVE parseValue(_, _), parseArray(_, _, _), parseObject(_, _, _)
parseValue(s, i) ==
    IF IsPunct(s[i], "[") THEN parseArray(s, i + 1, <<>>)
    ELSE IF IsPunct(s[i], "{") THEN parseObject(s, i + 1, <<>>)
    ELSE [value |-> s[i].v, next |-> i + 1]

parseArray(s, i, acc) ==
    IF IsPunct(s[i], "]") THEN [value |-> acc, next |-> i + 1]
    ELSE LET element == parseValue(s, i)
         IN parseArray(s, element.next, Append(acc, element.value))

parseObject(s, i, acc) ==
    IF IsPunct(s[i], "}") THEN [value |-> acc, next |-> i + 1]
    ELSE LET member == parseValue(s, i + 1)
         IN parseObject(s, member.next, (s[i].v :> member.value) @@ acc)

\* JSON.parse
parse(s) == parseValue(s, 1).value

\* ---- the calls
NoOutcome == [returned |-> FALSE]
\* handleFeedbackSubmission answers {success: true} when submitFeedback
\* resolves and {success: false, error} when it throws
Outcome(success, logWritten, statsWritten) ==
    [returned |-> TRUE, success |-> success, logWritten |-> logWritten,
     statsWritten |-> statsWritten]

NoExport == [json |-> <<>>, clean |-> FALSE]
ExportIdle == [pc |-> "idle", feedback |-> <<>>, clean |-> FALSE]
NoSubmitInFlight == submits = {}
Count(counts) ==
    counts["false_positive"] + counts["false_negative"] + counts["correct"]

FeedbackInit ==
    /\ storageLocal = [key \in {feedbackKey, statsKey} |-> Absent]
    /\ submits = {}
    /\ nextId = 0
    /\ callsMade = 0
    /\ exportCall = ExportIdle
    /\ lastExport = NoExport
    /\ submittedSinceClear = [type \in FeedbackTypes |-> 0]
    /\ overlapped = FALSE
    /\ clearedInFlight = FALSE
    /\ lastOutcome = NoOutcome

\* chrome.storage.local has been written: an export in progress has read
\* the store in two different states, and the string last exported is no
\* longer the export of the current state
storeWritten ==
    /\ lastExport' = NoExport
    /\ exportCall' = IF exportCall.pc = "idle" THEN exportCall
                     ELSE [exportCall EXCEPT !.clean = FALSE]

\* submitFeedback up to `await chrome.storage.local.get([this.feedbackKey])`,
\* which reads the log
submitFeedback(type) ==
    /\ lastOutcome' = NoOutcome
    /\ callsMade < MaxCalls
    /\ Cardinality(submits) < MaxInFlight
    /\ callsMade' = callsMade + 1
    /\ nextId' = nextId + 1
    /\ LET feedbackData == [id |-> nextId + 1, type |-> type]
           existingFeedback == getOr(storageLocal, feedbackKey, <<>>)
           updatedFeedback == capLog(<<feedbackData>> \o existingFeedback)
       IN submits' = submits \cup
             {[feedbackData |-> feedbackData, pc |-> "setFeedback",
               updatedFeedback |-> updatedFeedback, currentStats |-> getDefaultStats]}
    /\ submittedSinceClear' = [submittedSinceClear EXCEPT ![type] = @ + 1]
    /\ overlapped' = (overlapped \/ submits # {})
    /\ UNCHANGED <<storageLocal, exportCall, lastExport, clearedInFlight, otherThanFeedback>>

\* the call resumes with the log it read, up to
\* `await chrome.storage.local.set({[this.feedbackKey]: updatedFeedback})`,
\* which writes the log
submitSetsFeedback(call) ==
    /\ lastOutcome' = NoOutcome
    /\ call.pc = "setFeedback"
    /\ storageLocal' = [storageLocal EXCEPT ![feedbackKey] = Stored(call.updatedFeedback)]
    /\ submits' = (submits \ {call}) \cup {[call EXCEPT !.pc = "getStats"]}
    /\ storeWritten
    /\ UNCHANGED <<nextId, callsMade, submittedSinceClear, overlapped, clearedInFlight,
                   otherThanFeedback>>

\* the call resumes, enters updateStats, up to `await this.getFeedbackStats()`,
\* which reads the aggregate and the log
updateStatsGetsStats(call) ==
    /\ lastOutcome' = NoOutcome
    /\ call.pc = "getStats"
    /\ submits' = (submits \ {call}) \cup
          {[call EXCEPT !.pc = "setStats",
                        !.currentStats = updatedStats(getFeedbackStats(storageLocal),
                                                      call.feedbackData)]}
    /\ UNCHANGED <<storageLocal, nextId, callsMade, exportCall, lastExport,
                   submittedSinceClear, overlapped, clearedInFlight, otherThanFeedback>>

\* the call resumes with the aggregate it read, up to
\* `await chrome.storage.local.set({[this.statsKey]: currentStats})`, which
\* writes the aggregate; nothing is left to do but return
updateStatsSetsStats(call) ==
    /\ lastOutcome' = Outcome(TRUE, TRUE, TRUE)
    /\ call.pc = "setStats"
    /\ storageLocal' = [storageLocal EXCEPT ![statsKey] = Stored(call.currentStats)]
    /\ submits' = submits \ {call}
    /\ storeWritten
    /\ UNCHANGED <<nextId, callsMade, submittedSinceClear, overlapped, clearedInFlight,
                   otherThanFeedback>>

\* clearFeedback: chrome.storage.local.remove([feedbackKey, statsKey])
clearFeedback ==
    /\ lastOutcome' = NoOutcome
    /\ callsMade < MaxCalls
    /\ callsMade' = callsMade + 1
    /\ storageLocal' = [key \in {feedbackKey, statsKey} |-> Absent]
    /\ storeWritten
    /\ submittedSinceClear' = [type \in FeedbackTypes |-> 0]
    /\ overlapped' = (Cardinality(submits) > 1)
    /\ clearedInFlight' = (submits # {})
    /\ UNCHANGED <<submits, nextId, otherThanFeedback>>

\* exportFeedback up to the storage read of getAllFeedback
exportFeedback ==
    /\ lastOutcome' = NoOutcome
    /\ exportCall.pc = "idle"
    /\ callsMade < MaxCalls
    /\ callsMade' = callsMade + 1
    /\ exportCall' = [pc |-> "getFeedbackStats",
                      feedback |-> getAllFeedback(storageLocal), clean |-> TRUE]
    /\ UNCHANGED <<storageLocal, submits, nextId, lastExport, submittedSinceClear,
                   overlapped, clearedInFlight, otherThanFeedback>>

\* the call resumes with the log, up to the storage read of
\* getFeedbackStats; the string is built from the two and returned
exportGetsStats ==
    /\ lastOutcome' = NoOutcome
    /\ exportCall.pc = "getFeedbackStats"
    /\ lastExport' =
          [json |-> stringify([exportDate |-> "ISO-8601",
                               stats |-> getFeedbackStats(storageLocal),
                               feedback |-> exportCall.feedback]),
           clean |-> exportCall.clean]
    /\ exportCall' = ExportIdle
    /\ UNCHANGED <<storageLocal, submits, nextId, callsMade, submittedSinceClear,
                   overlapped, clearedInFlight, otherThanFeedback>>

FeedbackNext ==
    \/ \E type \in FeedbackTypes : submitFeedback(type)
    \/ \E call \in submits : submitSetsFeedback(call)
    \/ \E call \in submits : updateStatsGetsStats(call)
    \/ \E call \in submits : updateStatsSetsStats(call)
    \/ clearFeedback
    \/ exportFeedback
    \/ exportGetsStats

\* ---- storage operations that reject

\* submitFeedback whose `chrome.storage.local.get([this.feedbackKey])`
\* rejects: the catch block rethrows
submitGetFails(type) ==
    /\ callsMade < MaxCalls
    /\ Cardinality(submits) < MaxInFlight
    /\ callsMade' = callsMade + 1
    /\ nextId' = nextId + 1
    /\ lastOutcome' = Outcome(FALSE, FALSE, FALSE)
    /\ UNCHANGED <<storageLocal, submits, exportCall, lastExport, submittedSinceClear,
                   overlapped, clearedInFlight, otherThanFeedback>>

\* `chrome.storage.local.set({[this.feedbackKey]: updatedFeedback})`
\* rejects: the catch block rethrows
submitSetFails(call) ==
    /\ call.pc = "setFeedback"
    /\ submits' = submits \ {call}
    /\ lastOutcome' = Outcome(FALSE, FALSE, FALSE)
    /\ UNCHANGED <<storageLocal, nextId, callsMade, exportCall, lastExport,
                   submittedSinceClear, overlapped, clearedInFlight, otherThanFeedback>>

\* the storage read of getFeedbackStats rejects: its catch block returns
\* getDefaultStats(), which updateStats increments
updateStatsGetFails(call) ==
    /\ call.pc = "getStats"
    /\ submits' = (submits \ {call}) \cup
          {[call EXCEPT !.pc = "setStats",
                        !.currentStats = updatedStats(getDefaultStats, call.feedbackData)]}
    /\ lastOutcome' = NoOutcome
    /\ UNCHANGED <<storageLocal, nextId, callsMade, exportCall, lastExport,
                   submittedSinceClear, overlapped, clearedInFlight, otherThanFeedback>>

\* `chrome.storage.local.set({[this.statsKey]: currentStats})` rejects: the
\* catch block of updateStats logs and returns, and submitFeedback resolves
updateStatsSetFails(call) ==
    /\ call.pc = "setStats"
    /\ submits' = submits \ {call}
    /\ lastOutcome' = Outcome(TRUE, TRUE, FALSE)
    /\ UNCHANGED <<storageLocal, nextId, callsMade, exportCall, lastExport,
                   submittedSinceClear, overlapped, clearedInFlight, otherThanFeedback>>

FeedbackFaultNext ==
    \/ FeedbackNext
    \/ \E type \in FeedbackTypes : submitGetFails(type)
    \/ \E call \in submits : submitSetFails(call)
    \/ \E call \in submits : updateStatsGetFails(call)
    \/ \E call \in submits : updateStatsSetFails(call)

-----------------------------------------------------------------------------
(* The background and one content script together: settings                *)

\* values a message may carry in settings.confidence
AnyConfidence == {5, 50, 82, 100}

\* message.settings of an updateSettings message
UpdatePayloads == [confidence : AnyConfidence] \cup [enabled : BOOLEAN]

\* init() of the content script once the background answers: loadSettings()
\* copies the getSettings response ({ settings: this.settings }), then
\* setupMessageListeners(), setupMutationObserver(), processExistingContent()
contentInit ==
    /\ sweepPc = "init"
    /\ bgPc = "ready"
    /\ isEnabled' = settings.enabled
    /\ startSweep(settings.enabled)
    /\ UNCHANGED <<docVars, mutationQueue>>
    /\ UNCHANGED otherThanContent

\* BackgroundServiceWorker sends no message to a tab, and neither does the
\* side panel: the cases 'extensionToggled' and 'settingsUpdated' of the
\* content script's listener receive nothing, and are not steps of the system
SettingsNext ==
    \/ \E en \in BOOLEAN : \E th \in Thresholds : bgInit(en, th, DEFAULT_MODEL.modelId)
    \/ \E newSettings \in UpdatePayloads : handleSettingsUpdate(newSettings)
    \/ contentInit
    \/ processBatch
    \/ mutationCallback
    \/ \E e \in MovableElems : pageInsert(e)
    \/ \E e \in MovableElems : pageRemove(e)

-----------------------------------------------------------------------------
(* storeDetection, step by step: several handleClassificationRequest calls   *)
(* are in flight together, and each awaits its storage read and its storage  *)
(* write                                                                     *)

DetectionTexts == {"You are an idiot and I hate this", "I hate all of them"}

\* bound: storeDetection calls made in one behaviour
MaxStoreCalls == 3

\* classifyText has returned a hateful verdict for `text` to one of the
\* handlers in flight; storeDetection runs up to
\* `await chrome.storage.local.get(['recentDetections', 'stats'])`
storeDetectionBegins(text) ==
    /\ bgPc = "ready"
    /\ storeCalls.begun < MaxStoreCalls
    /\ storeCalls' =
          [storeCalls EXCEPT
              !.begun = @ + 1,
              !.hateful = @ + 1,
              !.inFlight = @ \cup {[id |-> storeCalls.begun + 1, pc |-> "get",
                                     text |-> text, recentDetections |-> <<>>,
                                     stats |-> [detected |-> 0, filtered |-> 0]]}]
    /\ UNCHANGED <<requestInFlight, classified, lastResponse, recentDetections,
                   detectionStats, broadcasts, routed>>
    /\ UNCHANGED <<preprocessCall, engineVars, contentVars, presentationVars,
                   feedbackVars>>

\* the read settles: the call holds what the two keys held, up to
\* `await chrome.storage.local.set(...)`
storeDetectionGets(call) ==
    /\ call.pc = "get"
    /\ storeCalls' =
          [storeCalls EXCEPT
              !.inFlight = (@ \ {call})
                  \cup {[call EXCEPT !.pc = "set",
                                     !.recentDetections = recentDetections,
                                     !.stats = detectionStats]}]
    /\ UNCHANGED <<requestInFlight, classified, lastResponse, recentDetections,
                   detectionStats, broadcasts, routed>>
    /\ UNCHANGED <<preprocessCall, engineVars, contentVars, presentationVars,
                   feedbackVars>>

\* the write settles with the values computed from what the call read;
\* statsUpdated is sent and the handler calls sendResponse
storeDetectionSets(call) ==
    /\ call.pc = "set"
    /\ LET updatedDetections == <<call.text>> \o call.recentDetections
       IN recentDetections' = SubSeq(updatedDetections, 1,
                                     Min(Len(updatedDetections), DetectionsCap))
    /\ detectionStats' = [detected |-> call.stats.detected + 1,
                          filtered |-> call.stats.filtered + 1]
    /\ broadcasts' = broadcasts \cup {"statsUpdated"}
    /\ storeCalls' = [storeCalls EXCEPT !.inFlight = @ \ {call}]
    /\ UNCHANGED <<requestInFlight, classified, lastResponse, routed>>
    /\ UNCHANGED <<preprocessCall, engineVars, contentVars, presentationVars,
                   feedbackVars>>

\* clearStats(): one write of both keys
clearStats ==
    /\ bgPc = "ready"
    /\ recentDetections' = <<>>
    /\ detectionStats' = [detected |-> 0, filtered |-> 0]
    /\ storeCalls' = [storeCalls EXCEPT !.hateful = 0,
                                        !.clearedUnder = (storeCalls.inFlight # {})]
    /\ UNCHANGED <<requestInFlight, classified, lastResponse, broadcasts, routed>>
    /\ UNCHANGED <<preprocessCall, engineVars, contentVars, presentationVars,
                   feedbackVars>>

DetectionNext ==
    \/ \E en \in BOOLEAN : bgInit(en, 82, DEFAULT_MODEL.modelId)
    \/ \E text \in DetectionTexts : storeDetectionBegins(text)
    \/ \E call \in storeCalls.inFlight : storeDetectionGets(call)
    \/ \E call \in storeCalls.inFlight : storeDetectionSets(call)
    \/ clearStats

-----------------------------------------------------------------------------
(* preprocessText (model-config.ts). A string is a sequence of characters.   *)

\* TEXT_PREPROCESSING.maxLength is 512; scaled down so that the inputs below
\* are longer
MaxLength == 6

\* bound: pieces an input is made of
MaxPieces == 4

\* the characters \s matches among those of the inputs
isWhitespace(c) == c \in {" ", "\t", "\n"}

\* the string has `word` at position i
StartsWith(str, i, word) ==
    /\ i + Len(word) - 1 <= Len(str)
    /\ \A k \in 1..Len(word) : str[i + k - 1] = word[k]

\* the last position of the run of non-whitespace characters that holds i
RECURSIVE endOfNonWhitespace(_, _)
endOfNonWhitespace(str, i) ==
    IF i + 1 <= Len(str) /\ ~isWhitespace(str[i + 1])
    THEN endOfNonWhitespace(str, i + 1) ELSE i

\* the last position of the run of whitespace characters that holds i
RECURSIVE endOfWhitespace(_, _)
endOfWhitespace(str, i) ==
    IF i + 1 <= Len(str) /\ isWhitespace(str[i + 1])
    THEN endOfWhitespace(str, i + 1) ELSE i

\* /https?:\/\/[^\s]+/ matched at position i: the position of the last
\* character of the match, 0 when there is no match at i
urlEnd(str, i) ==
    LET afterScheme ==
            IF StartsWith(str, i, <<"h", "t", "t", "p", "s">>) THEN i + 5
            ELSE IF StartsWith(str, i, <<"h", "t", "t", "p">>) THEN i + 4
            ELSE 0
    IN IF afterScheme = 0 THEN 0
       ELSE IF ~StartsWith(str, afterScheme, <<":", "/", "/">>) THEN 0
       ELSE IF afterScheme + 3 > Len(str) THEN 0
       ELSE IF isWhitespace(str[afterScheme + 3]) THEN 0
       ELSE endOfNonWhitespace(str, afterScheme + 3)

\* processed.replace(/https?:\/\/[^\s]+/g, '')
RECURSIVE removeUrlsFrom(_, _)
removeUrlsFrom(str, i) ==
    IF i > Len(str) THEN <<>>
    ELSE IF urlEnd(str, i) > 0 THEN removeUrlsFrom(str, urlEnd(str, i) + 1)
    ELSE <<str[i]>> \o removeUrlsFrom(str, i + 1)

removeUrls(str) == removeUrlsFrom(str, 1)

\* processed.replace(/\s+/g, ' ')
RECURSIVE collapseWhitespaceFrom(_, _)
collapseWhitespaceFrom(str, i) ==
    IF i > Len(str) THEN <<>>
    ELSE IF isWhitespace(str[i])
      THEN <<" ">> \o collapseWhitespaceFrom(str, endOfWhitespace(str, i) + 1)
    ELSE <<str[i]>> \o collapseWhitespaceFrom(str, i + 1)

\* String.prototype.trim
RECURSIVE trim(_)
trim(str) ==
    IF str = <<>> THEN <<>>
    ELSE IF isWhitespace(Head(str)) THEN trim(Tail(str))
    ELSE IF isWhitespace(str[Len(str)]) THEN trim(SubSeq(str, 1, Len(str) - 1))
    ELSE str

\* processed.replace(/\s+/g, ' ').trim()
normalizeWhitespace(str) == trim(collapseWhitespaceFrom(str, 1))

\* String.prototype.substring(start, end), 0 <= start <= end
substring(str, start, end) == SubSeq(str, start + 1, Min(Len(str), end))

\* preprocessText(text): removeUrls, normalizeWhitespace and truncation are
\* all switched on in TEXT_PREPROCESSING
preprocessText(text) ==
    LET processed == normalizeWhitespace(removeUrls(text))
    IN IF Len(processed) > MaxLength THEN substring(processed, 0, MaxLength)
       ELSE processed

\* ---- inputs: up to MaxPieces of these pieces, one after the other
Pieces ==
    { <<"h", "t", "t", "p", ":", "/", "/">>,
      <<"h", "t", "t", "p", "s", ":", "/", "/">>,
      <<"h", "t", "t">>,
      <<"p", ":", "/", "/">>,
      <<"a">>, <<"a", "b">>, <<"a", "b", "c", "d">>,
      <<" ">>, <<"\t", "\n">> }

RECURSIVE PreprocessInputsOf(_)
PreprocessInputsOf(n) ==
    IF n = 0 THEN {<<>>}
    ELSE LET shorter == PreprocessInputsOf(n - 1)
         IN shorter \cup {str \o piece : str \in shorter, piece \in Pieces}

PreprocessInputs == PreprocessInputsOf(MaxPieces)

\* classifyWithAI calls preprocessText(text), which runs to its return
preprocessTextReturns ==
    /\ preprocessCall.pc = "called"
    /\ preprocessCall' = [preprocessCall EXCEPT
                             !.pc = "returned",
                             !.processed = preprocessText(preprocessCall.text)]
    /\ UNCHANGED <<requestInFlight, classified, lastResponse, recentDetections,
                   detectionStats, broadcasts, routed, storeCalls>>
    /\ UNCHANGED <<engineVars, contentVars, presentationVars, feedbackVars>>

PreprocessNext == preprocessTextReturns

-----------------------------------------------------------------------------
(* Verdicts under settings changes: the background classifies, the content   *)
(* script receives the verdict in the callback of its request                *)

\* one item scored 0.82, under a hateful and under a normal label
VerdictResults ==
    {[kind |-> "object", item |-> [label |-> l, score |-> 82]] : l \in {L_hate, L_normal}}

\* sendResponse({success: true, classification, elementId}) of
\* handleClassificationRequest reaches the callback of the request
verdictDelivered(request) ==
    /\ lastCall.kind \in {"ai", "default", "degraded"}
    \* the requests are classified one at a time, in the order they were sent
    /\ \A other \in outbox : other.elementId < request.elementId =>
                                other.elementId \in answered
    /\ sendMessageCallback(request,
                           [kind |-> "response", success |-> TRUE,
                            classification |-> lastCall.verdict.label,
                            elementId |-> request.elementId])

VerdictNext ==
    \/ bgInit(TRUE, 82, DEFAULT_MODEL.modelId)
    \/ loadSucceeds
    \/ \E newSettings \in [confidence : Thresholds] : handleSettingsUpdate(newSettings)
    \/ \E text \in Texts : classifyText(text)
    \/ \E result \in VerdictResults : classifierReturns(result)
    \/ contentInit
    \/ processBatch
    \/ \E enabled \in BOOLEAN : extensionToggled(enabled)
    \/ \E request \in outbox : verdictDelivered(request)

-----------------------------------------------------------------------------
(* The content script under a page that attaches many elements in one task  *)

\* bound: elements the page attaches to document.body in one task
MaxBurst == 6

\* the top-level elements of the page
TopLevelElems == {e \in Elems : ParentOf(e) = Body}

\* the page attaches every element of S to document.body within one task
\* (a loop of appendChild): the observer's next callback is given one record
\* for each
pageInsertAll(S) ==
    /\ sweepPc # "init"
    /\ mutationQueue = <<>>
    /\ S # {}
    /\ Cardinality(S) <= MaxBurst
    /\ \A e \in S : ~linked[e]
    /\ linked' = [e \in Elems |-> linked[e] \/ e \in S]
    /\ mutationQueue' = SetToSortedSeq(S)
    /\ UNCHANGED <<directLen, hidden, isEnabled, dispatchVars, sweepVars>>
    /\ UNCHANGED otherThanContent

\* any page of the top-level elements, the DIV holding its two children
BurstContentInit ==
    /\ linked \in {f \in [Elems -> BOOLEAN] : \A e \in Elems \ TopLevelElems : f[e]}
    /\ directLen = [e \in Elems |-> 12]
    /\ hidden = {}
    /\ hsExtId = [e \in Elems |-> NoId]
    /\ processedElements = {}
    /\ uniqueIdCounter = 0
    /\ isEnabled = TRUE
    /\ sweepPc = "init"
    /\ sweepElements = <<>>
    /\ sweepIndex = 0
    /\ mutationQueue = <<>>
    /\ outbox = {}
    /\ sent = [e \in Elems |-> 0]
    /\ reoffered = {}

BurstNext ==
    \/ processExistingContent
    \/ processBatch
    \/ mutationCallback
    \/ \E S \in SUBSET TopLevelElems : pageInsertAll(S)

-----------------------------------------------------------------------------
(* Specifications                                                           *)

\* each specification runs one component from its initial state, the other
\* two at rest
ContentSpecInit == ContentInit /\ PresentationInit /\ EngineConstructed /\ FeedbackInit

ContentSpec == ContentSpecInit /\ [][ContentNext]_vars

EngineSpecInit == EngineConstructed /\ ContentIdle /\ FeedbackInit

EngineSpec == EngineSpecInit /\ [][EngineNext]_vars

FeedbackSpecInit == FeedbackInit /\ ContentIdle /\ EngineConstructed

FeedbackSpec == FeedbackSpecInit /\ [][FeedbackNext]_vars

\* a call in flight goes on: every storage operation settles and the
\* continuation after it runs (new calls are made when the user likes)
FeedbackContinues ==
    \/ \E call \in submits :
          \/ submitSetsFeedback(call)
          \/ updateStatsGetsStats(call)
          \/ updateStatsSetsStats(call)
    \/ exportGetsStats

FeedbackFairSpec ==
    FeedbackSpecInit /\ [][FeedbackNext]_vars /\ WF_vars(FeedbackContinues)

\* the feedback store over a chrome.storage.local whose operations may reject
FeedbackFaultSpec == FeedbackSpecInit /\ [][FeedbackFaultNext]_vars

ExtractionSpec == ContentSpecInit /\ [][ExtractionNext]_vars

RequestSpec == EngineSpecInit /\ [][RequestNext]_vars

RouterSpec == EngineSpecInit /\ [][RouterNext]_vars

\* every pending promise settles and every message is handled
RequestFairSpec == EngineSpecInit /\ [][RequestNext]_vars /\ WF_vars(RequestNext)

PresentationSpecInit ==
    PresentationContentInit /\ PresentationInit /\ EngineConstructed /\ FeedbackInit

PresentationSpec == PresentationSpecInit /\ [][PresentationNext]_vars

BurstSpecInit ==
    BurstContentInit /\ PresentationInit /\ EngineConstructed /\ FeedbackInit

BurstSpec == BurstSpecInit /\ [][BurstNext]_vars

VerdictSpec == EngineSpecInit /\ [][VerdictNext]_vars

DetectionSpec == EngineSpecInit /\ [][DetectionNext]_vars

\* preprocessText is about to be called with any of the inputs
PreprocessSpecInit ==
    /\ preprocessCall \in {[pc |-> "called", text |-> text, processed |-> <<>>] :
                               text \in PreprocessInputs}
    /\ EngineFields
    /\ ContentIdle
    /\ FeedbackInit

PreprocessSpec == PreprocessSpecInit /\ [][PreprocessNext]_vars

\* the browser keeps dispatching: while some message, timer or mutation
\* record is due, one of the handlers eventually runs
SettingsSpec == EngineSpecInit /\ [][SettingsNext]_vars /\ WF_vars(SettingsNext)

-----------------------------------------------------------------------------
(* Claims about the content script                                          *)

\* C1 (at-most-once): no element ever has more than one classifyText request
\* sent for it, whatever the interleaving of sweep batches and observer
\* callbacks; an element carries an id exactly when its one request was sent,
\* and the outbox holds exactly that one message for it.
C1_AtMostOnce ==
    \A e \in Elems :
        /\ sent[e] <= 1
        /\ (hsExtId[e] # NoId) <=> (sent[e] = 1)
        /\ Cardinality({m \in outbox : m.element = e}) = sent[e]

\* an element was handed to processTextElement again after its request had
\* been sent (it sat in a later sweep batch, or in a later mutation record),
\* and still has exactly one request
C1_Witness ==
    \E e \in Elems : e \in reoffered /\ sent[e] = 1 /\ sweepPc = "done"

\* C2 (smallest unit): no two elements that both carry an id are ancestor
\* and descendant of one another.
C2_NoNestedSubmitted ==
    \A a \in Elems : \A b \in Elems :
        (hsExtId[a] # NoId /\ hsExtId[b] # NoId) => a \notin Ancestors(b)

-----------------------------------------------------------------------------
(* Claims about the classification engine                                   *)

C3_SetMax(S) == IF S = {} THEN -1 ELSE CHOOSE x \in S : \A y \in S : y <= x

\* the scores of the pairs whose raw label belongs to the label set `labels`
C3_ScoresOf(items, labels) ==
    {items[i].score : i \in {j \in 1..Len(items) : toLowerCase(items[j].label) \in labels}}

\* C3 (verdict rule): with the model Loaded, for every list of (rawLabel,
\* score) pairs returned by inference and every threshold, the verdict is
\* hateful if and only if the largest hateful score exceeds the largest
\* normal score and reaches the threshold; ties and every other case are
\* normal.
C3_HatefulIffMaxRule ==
    (lastCall.kind = "ai" /\ lastCall.result.kind = "array") =>
        LET cfg == getCurrentModelConfig(lastCall.selectedModel)
            maxHateful == C3_SetMax(C3_ScoresOf(lastCall.result.items, cfg.hateful))
            maxNormal == C3_SetMax(C3_ScoresOf(lastCall.result.items, cfg.normal))
        IN (lastCall.verdict.label = "hateful")
              <=> (maxHateful > maxNormal /\ maxHateful >= lastCall.threshold)

\* C4 (fail-safe default): a classifyText call made while the engine is not
\* Loaded (Loading, or Failed after a load error) returns at once, without
\* awaiting anything, the verdict normal / 0.5 / "model not available".
C4_FailSafeDefault ==
    (lastCall.kind # "none" /\ lastCall.engine # "Loaded") =>
        /\ ~lastCall.awaited
        /\ lastCall.verdict.label = "normal"
        /\ lastCall.verdict.confidence = 50
        /\ lastCall.verdict.explanation.kind = "unavailable"

\* a call served after the model failed to load
C4_Witness ==
    /\ lastCall.kind = "default"
    /\ lastCall.engine = "Failed"
    /\ lastCall.verdict.label = "normal"

\* C5 (threshold monotonicity): for the inference output of a call, a normal
\* verdict at a threshold stays normal at every higher threshold; in
\* particular the normal verdict the call returned.
C5_ThresholdMonotone ==
    lastCall.kind = "ai" =>
        LET cfg == getCurrentModelConfig(lastCall.selectedModel)
            st == scanResult(cfg, lastCall.result)
            labelAt == [t \in Thresholds |-> verdictOf(cfg, st, t).label]
        IN /\ \A t \in Thresholds : \A u \in Thresholds :
                 (t < u /\ labelAt[t] = "normal") => labelAt[u] = "normal"
           /\ lastCall.verdict.label = labelAt[lastCall.threshold]
           /\ lastCall.verdict.label = "normal" =>
                 \A u \in Thresholds : u > lastCall.threshold => labelAt[u] = "normal"

\* scenarios 1 and 2: toxic scored 0.82 is hateful at threshold 0.5, and the
\* same output is normal with confidence 0.82 at threshold 0.9
C5_Witness ==
    /\ lastCall.kind = "ai"
    /\ lastCall.threshold = 50
    /\ lastCall.verdict.label = "hateful"
    /\ lastCall.verdict.confidence = 82
    /\ classifyWithAI(lastCall.result, lastCall.selectedModel, 90).label = "normal"
    /\ classifyWithAI(lastCall.result, lastCall.selectedModel, 90).confidence = 82

-----------------------------------------------------------------------------
(* Claims about the feedback store                                          *)

\* the aggregate as persisted: the stored value, the default one when the
\* key is absent
C6_StoredStats == getOr(storageLocal, statsKey, getDefaultStats)

C6_StoredLog == getOr(storageLocal, feedbackKey, <<>>)

\* every submitFeedback call since the last clearFeedback has returned, none
\* of them started before the previous one returned, and the clear did not
\* run under a call in flight
C6_Sequential == NoSubmitInFlight /\ ~overlapped /\ ~clearedInFlight

\* C6 (stats consistency): from a cleared store, after N submitFeedback
\* calls each of which returned before the next started, the stored
\* aggregate has totalFeedback = N, each counter equals the number of calls
\* of its type, and accuracy = correctClassifications / N when N > 0.
C6_StatsConsistency ==
    C6_Sequential =>
        LET N == Count(submittedSinceClear)
            stats == C6_StoredStats
        IN /\ stats.totalFeedback = N
           /\ stats.falsePositives = submittedSinceClear["false_positive"]
           /\ stats.falseNegatives = submittedSinceClear["false_negative"]
           /\ stats.correctClassifications = submittedSinceClear["correct"]
           /\ N > 0 => stats.accuracy = Ratio(stats.correctClassifications, N)

\* scenario 4: false_positive then correct gives total 2, falsePositives 1,
\* correct 1, accuracy 0.5
C6_Witness ==
    /\ C6_Sequential
    /\ submittedSinceClear = [type \in FeedbackTypes |->
                                 IF type = "false_negative" THEN 0 ELSE 1]
    /\ C6_StoredStats.totalFeedback = 2
    /\ C6_StoredStats.falsePositives = 1
    /\ C6_StoredStats.correctClassifications = 1
    /\ C6_StoredStats.accuracy = <<1, 2>>

\* C7 (no lost increment): once all submitFeedback calls have returned,
\* however their storage reads and writes interleaved, totalFeedback equals
\* the number of calls and the log holds an entry for each of them, up to
\* the cap.
C7_NoLostIncrement ==
    (NoSubmitInFlight /\ ~clearedInFlight) =>
        /\ C6_StoredStats.totalFeedback = Count(submittedSinceClear)
        /\ Len(C6_StoredLog) = Min(Count(submittedSinceClear), FeedbackCap)

\* C8 (accuracy invariant): in every state the persisted aggregate has
\* accuracy = correct / (correct + falsePositives + falseNegatives) when the
\* denominator is positive, and 0 otherwise.
C8_AccuracyInvariant ==
    LET stats == C6_StoredStats
        denominator == stats.correctClassifications + stats.falsePositives
                         + stats.falseNegatives
    IN IF denominator > 0
       THEN stats.accuracy = Ratio(stats.correctClassifications, denominator)
       ELSE stats.accuracy = Zero

\* an aggregate is persisted whose accuracy is neither 0 nor 1
C8_Witness ==
    /\ storageLocal[statsKey] # Absent
    /\ C6_StoredStats.correctClassifications = 1
    /\ C6_StoredStats.falsePositives + C6_StoredStats.falseNegatives = 2
    /\ C6_StoredStats.accuracy = <<1, 3>>

C10_ExportOfThisState ==
    /\ lastExport # NoExport
    /\ lastExport.clean
    /\ NoSubmitInFlight
    /\ ~clearedInFlight

\* C10 (export round trip): after any sequence of completed submitFeedback
\* calls, the string exportFeedback returns parses to an object whose
\* feedback list has length min(number submitted since the last clear, cap)
\* and whose stats equal what getFeedbackStats returns in the same state.
C10_ExportRoundTrip ==
    C10_ExportOfThisState =>
        LET exported == parse(lastExport.json)
        IN /\ Len(exported.feedback)
                 = Min(Count(submittedSinceClear), FeedbackCap)
           /\ exported.stats = getFeedbackStats(storageLocal)

\* the round trip when the calls were made one after the other
C10_SequentialRoundTrip ==
    (C10_ExportOfThisState /\ ~overlapped) =>
        LET exported == parse(lastExport.json)
        IN /\ Len(exported.feedback)
                 = Min(Count(submittedSinceClear), FeedbackCap)
           /\ exported.feedback = getAllFeedback(storageLocal)
           /\ exported.stats = getFeedbackStats(storageLocal)
           /\ exported.exportDate = "ISO-8601"

\* the entries of `log` whose type is `type`
C11_CountOf(log, type) == Cardinality({i \in 1..Len(log) : log[i].type = type})

\* C11 (clear resets both together): once clearFeedback and the one
\* submitFeedback call that was in flight when it ran have returned, the log
\* and the aggregate describe the same submissions: as many entries as
\* totalFeedback counts (up to the cap), and, below the cap, as many entries
\* of each type as its counter.
C11_ClearTogether ==
    (NoSubmitInFlight /\ ~overlapped) =>
        LET stats == C6_StoredStats
            log == C6_StoredLog
        IN /\ Len(log) = Min(stats.totalFeedback, FeedbackCap)
           /\ stats.totalFeedback <= FeedbackCap =>
                 /\ stats.falsePositives = C11_CountOf(log, "false_positive")
                 /\ stats.falseNegatives = C11_CountOf(log, "false_negative")
                 /\ stats.correctClassifications = C11_CountOf(log, "correct")

\* C12 (all-or-nothing submission): a submitFeedback call that has returned
\* reported success exactly when it wrote both the log and the aggregate,
\* and wrote neither when it reported failure.
C12_AllOrNothing ==
    lastOutcome.returned =>
        /\ lastOutcome.success <=> (lastOutcome.logWritten /\ lastOutcome.statsWritten)
        /\ lastOutcome.logWritten <=> lastOutcome.statsWritten

-----------------------------------------------------------------------------
(* Claims about the model lifecycle                                         *)

C13_Moves ==
    {<<"Unloaded", "Loading">>, <<"Loading", "Loaded">>, <<"Loading", "Failed">>}

\* the engine state of the next state
C13_EngineStateNext ==
    IF isModelLoaded' THEN "Loaded"
    ELSE IF isModelLoading' THEN "Loading"
    ELSE IF bgPc' = "new" THEN "Unloaded"
    ELSE "Failed"

C14_LoadedIsSelected ==
    EngineState = "Loaded" => classifier = settings.selectedModel

\* C15 (inference failure degrades one call): a call whose inference threw
\* returns the fail-safe normal verdict and leaves the engine Loaded with
\* its classifier, no load started; and a call whose inference succeeds
\* after an earlier one threw returns the verdict computed from its own
\* inference result.
C15_DegradesOneCall ==
    /\ lastCall.kind = "degraded" =>
          /\ lastCall.verdict = defaultClassification
          /\ EngineState = "Loaded"
          /\ classifier # Null
          /\ pipelineCalls = 1
    /\ (lastCall.kind = "ai" /\ lastCall.afterThrow) =>
          /\ EngineState = "Loaded"
          /\ lastCall.verdict = classifyWithAI(lastCall.result, lastCall.selectedModel,
                                               lastCall.threshold)
          /\ lastCall.verdict # defaultClassification

\* an inference threw, and a later call returned a hateful verdict
C15_Witness ==
    /\ lastCall.kind = "ai"
    /\ lastCall.afterThrow
    /\ lastCall.verdict.label = "hateful"

-----------------------------------------------------------------------------
(* Claims about extraction and presentation                                 *)

\* the dispatcher with every processing mark taken away
C16_Unmarked == [Dispatcher EXCEPT !.ids = [e \in Elems |-> NoId], !.proc = {}]

\* e is processed: it carries an id and belongs to the processed set
C16_Processed(e) == hsExtId[e] # NoId /\ e \in processedElements

\* the elements that qualify for extraction (the walker's filter accepts
\* their text node when the marks are disregarded) and are not processed
C16_Unprocessed ==
    LET unmarked == C16_Unmarked
    IN {e \in Elems : ~C16_Processed(e) /\ acceptNode(unmarked, e)}

\* every qualifying element of the subtree is processed
C16_AllProcessed(root) == C16_Unprocessed \cap Subtree(root) = {}

\* the subtree roots handed to findTextElements: document.body by the
\* startup sweep, an attached node by the observer
C16_Roots == {Body} \cup MovableElems

\* C16 (idempotent extraction): over a subtree whose qualifying elements
\* all carry an id and belong to the processed set, findTextElements
\* returns the empty list, and processNewNode sends no request and marks
\* nothing.
C16_IdempotentExtraction ==
    \A root \in C16_Roots :
        C16_AllProcessed(root) =>
            /\ findTextElements(Dispatcher, root) = <<>>
            /\ processNewNode(Dispatcher, root) = Dispatcher

\* the observer is about to run over a subtree the page has attached again,
\* whose two qualifying elements were processed when the sweep ran
C16_Witness ==
    /\ sweepPc = "done"
    /\ mutationQueue # <<>>
    /\ LET root == Head(mutationQueue) IN
          /\ Cardinality({e \in Subtree(root) :
                             C16_Processed(e) /\ acceptNode(C16_Unmarked, e)}) >= 2
          /\ C16_AllProcessed(root)
          /\ findTextElements(Dispatcher, root) = <<>>

\* the text of a classifyText message is missing, empty or not a string
C18_Malformed(text) ==
    \/ text.type \in {"undefined", "null"}
    \/ text.type # "string"
    \/ text.value = ""

\* C18 (malformed request): a classifyText message whose text is missing,
\* empty or not a string is answered {success: false, error, elementId}
\* with no classification; its text is never handed to classifyText, its
\* handler never awaits the classifier, and no detection is stored for it.
C18_MalformedRejected ==
    /\ (lastResponse.sent /\ C18_Malformed(lastResponse.request.text)) =>
          /\ ~lastResponse.success
          /\ lastResponse.error # Null
          /\ lastResponse.classification = NoClassification
          /\ lastResponse.elementId = lastResponse.request.elementId
    /\ \A text \in classified : ~C18_Malformed(text)
    /\ requestInFlight # NoRequest => ~C18_Malformed(requestInFlight.text)
    /\ \A i \in 1..Len(recentDetections) : ~C18_Malformed(recentDetections[i])
    /\ detectionStats.detected = Len(recentDetections)

\* the model is loaded and has stored a detection; a message whose text is a
\* number has just been refused, and the stored detections are as before
C18_Witness ==
    /\ isModelLoaded
    /\ lastResponse.sent
    /\ lastResponse.request.text.type = "number"
    /\ ~lastResponse.success
    /\ detectionStats.detected = 1
    /\ recentDetections = <<ValidText>>

\* a step in which a message was handed to the content script
C17_Delivery ==
    answered' # answered \/ runtimeMessages' # runtimeMessages

\* an element of the document carries the id
C17_Matches(elementId) ==
    \E e \in Elems : hsExtId[e] = elementId /\ InDocument(e)

\* C17 (response for a removed element): when a classification result
\* names an id that no element of the document carries, the step changes
\* neither the document, nor the presentation of any element, nor the
\* dispatcher's state.
C17_RemovedElementDiscarded ==
    [][(/\ C17_Delivery
        /\ lastDelivery'.label # NoClassification
        /\ lastDelivery'.elementId # NoId
        /\ ~C17_Matches(lastDelivery'.elementId)) =>
           UNCHANGED <<docVars, indicators, applied, dispatchVars, sweepVars,
                       mutationQueue, isEnabled>>]_vars

\* the callback of a request has delivered a hateful verdict for an element
\* that got its id and has left the document since; the element stays
\* unstyled
C17_Witness ==
    /\ lastDelivery.via = "callback"
    /\ lastDelivery.label = "hateful"
    /\ \E e \in Elems :
          /\ hsExtId[e] = lastDelivery.elementId
          /\ sent[e] = 1
          /\ ~InDocument(e)
          /\ applied[e] = 0 /\ indicators[e] = 0

\* C19 (one affordance per element): whatever messages have reached the
\* content script, the obscuring treatment has run at most once on every
\* element, and an element it has run on carries exactly one indicator.
C19_OneAffordance ==
    \A e \in Elems :
        /\ applied[e] <= 1
        /\ applied[e] >= 1 => indicators[e] = 1

\* C20 (presentation only): a run of applyHatefulStyling on an element
\* leaves the element's text content and its child elements as they were.
C20_PresentationOnly ==
    [][\A e \in Elems :
           applied'[e] # applied[e] =>
               /\ TextContentLen(e)' = TextContentLen(e)
               /\ Children(e)' = Children(e)]_vars

-----------------------------------------------------------------------------
\* C21: once the background holds a value of `enabled` that the content
\* script does not, the content script eventually holds the background's
\* value (the change is broadcast and received)
C21_SettingsBroadcast ==
    (sweepPc # "init" /\ bgPc = "ready" /\ isEnabled # settings.enabled)
        ~> (isEnabled = settings.enabled)

-----------------------------------------------------------------------------
\* C24: in every state of the background, settings.confidence lies in
\* [0.5, 0.95]
C24_ConfidenceInRange ==
    bgPc = "ready" => settings.confidence \in 50..95

-----------------------------------------------------------------------------
\* C22: the classifyText requests for the elements of one mutation batch are
\* sent in bounded batches: no synchronous pass of the content script (a
\* batch of the sweep, a run of the observer callback) sends more than one
\* batch of requests.
C22_BoundedBatches ==
    [][uniqueIdCounter' - uniqueIdCounter <= BatchSize
         /\ Cardinality(outbox' \ outbox) <= BatchSize]_vars

-----------------------------------------------------------------------------
\* C23: once a submitFeedback call has returned successfully, the
\* background has emitted a feedbackUpdated broadcast (on which an open side
\* panel reloads its feedback statistics).
C23_FeedbackBroadcast ==
    (lastOutcome.returned /\ lastOutcome.success) ~> ("feedbackUpdated" \in broadcasts)

-----------------------------------------------------------------------------
\* C25: from the Failed state of the engine a new load of the model is
\* eventually started.
C25_RetryAfterFailure ==
    (EngineState = "Failed") ~> (EngineState = "Loading")

-----------------------------------------------------------------------------
\* the classifyText requests whose callback has not run
C26_Outstanding == {request \in outbox : request.elementId \notin answered}

\* C26: while a request for an element is outstanding, the element carries
\* the request's id and is in the processed set, and no second request for
\* the element exists, whatever observer callbacks and sweep batches have run
\* since the request was sent.
C26_MarkedWhileOutstanding ==
    \A request \in C26_Outstanding :
        /\ hsExtId[request.element] = request.elementId
        /\ request.element \in processedElements
        /\ \A other \in outbox : other.element = request.element => other = request

\* an element was handed to processTextElement again while its request was
\* outstanding (by a sweep batch that ran after the observer callback which
\* sent it), and was declined: it still carries the id of that request
C26_Witness ==
    \E request \in C26_Outstanding :
        /\ request.element \in reoffered
        /\ hsExtId[request.element] = request.elementId
        /\ mutationQueue = <<>>

-----------------------------------------------------------------------------
\* a callback or the listener has handed a result to the content script
C27_Delivered ==
    answered' # answered \/ runtimeMessages' # runtimeMessages

\* the obscuring treatment has run on e in this step
C27_Treated(e) ==
    applied'[e] # applied[e] \/ indicators'[e] # indicators[e]
        \/ directLen'[e] # directLen[e]

\* C27: a delivered result is applied to the element of the document whose
\* id equals the result's elementId and to no other, in whatever order the
\* results arrive: the treatment runs on an element only if the element
\* carries that id and the label is hateful, it does run on that element
\* when the label is hateful, nothing outside the content of that element
\* changes, and a verdict other than hateful changes nothing in the document.
C27_AppliedById ==
    [][C27_Delivered =>
          LET elementId == lastDelivery'.elementId
              label == lastDelivery'.label
          IN /\ \A e \in Elems :
                    C27_Treated(e) =>
                        /\ elementId # NoId
                        /\ hsExtId[e] = elementId
                        /\ InDocument(e)
                        /\ label = "hateful"
             /\ \A e \in Elems :
                    (label = "hateful" /\ elementId # NoId /\ hsExtId[e] = elementId
                        /\ InDocument(e)) => applied'[e] = applied[e] + 1
             /\ \A e \in Elems :
                    linked'[e] # linked[e] =>
                        \E target \in Ancestors(e) :
                            hsExtId[target] = elementId /\ C27_Treated(target)
             /\ label # "hateful" => UNCHANGED <<docVars, indicators, applied>>
             /\ UNCHANGED <<hsExtId, processedElements>>]_vars

\* the results of two outstanding requests have arrived in the reverse of
\* the order of the requests: the later request was answered first with a
\* verdict that left its element alone, and the hateful verdict that came
\* after it was applied to the element of the earlier request, and to it only
C27_Witness ==
    /\ lastDelivery.via = "callback"
    /\ lastDelivery.label = "hateful"
    /\ \E e \in Elems : \E o \in Elems \ {e} :
          /\ hsExtId[e] = lastDelivery.elementId
          /\ hsExtId[o] > hsExtId[e]
          /\ hsExtId[o] \in answered
          /\ InDocument(e) /\ InDocument(o)
          /\ applied[e] = 1 /\ applied[o] = 0

-----------------------------------------------------------------------------
\* the (rawLabel, score) pairs of the inference result of the last call
C28_Pairs ==
    IF lastCall.result.kind = "array"
    THEN {lastCall.result.items[i] : i \in 1..Len(lastCall.result.items)}
    ELSE IF lastCall.result.kind = "object" THEN {lastCall.result.item} ELSE {}

\* C28: a raw label that belongs to the normal set of the active model is
\* never counted as a hateful score: a result whose raw labels all belong to
\* the normal set never yields the verdict hateful.
C28_NormalLabelNeverHateful ==
    (lastCall.kind = "ai"
        /\ \A pair \in C28_Pairs :
               toLowerCase(pair.label)
                   \in getCurrentModelConfig(lastCall.selectedModel).normal) =>
        lastCall.verdict.label # "hateful"

-----------------------------------------------------------------------------
\* the orders in which the pairs of `items` can be listed
C29_Permutations(items) ==
    LET n == Len(items)
        orders == {f \in [1..n -> 1..n] : \A i, j \in 1..n : f[i] = f[j] => i = j}
    IN {[i \in 1..n |-> items[f[i]]] : f \in orders}

\* C29: the verdict does not depend on the order of the pairs in the
\* inference result: every permutation of the list yields the same label
\* and the same confidence.
C29_OrderIndependent ==
    (lastCall.kind = "ai" /\ lastCall.result.kind = "array") =>
        \A items \in C29_Permutations(lastCall.result.items) :
            LET other == classifyWithAI([kind |-> "array", items |-> items],
                                        lastCall.selectedModel, lastCall.threshold)
            IN /\ other.label = lastCall.verdict.label
               /\ other.confidence = lastCall.verdict.confidence

-----------------------------------------------------------------------------
\* C30: with the model Loaded, the confidence of the verdict is the observed
\* score, unchanged: for a result of one pair it is the score of the pair.
C30_ConfidenceIsObservedScore ==
    (lastCall.kind = "ai" /\ lastCall.result.kind = "object") =>
        lastCall.verdict.confidence = lastCall.result.item.score

-----------------------------------------------------------------------------
\* the elements for which the step sends a request
C31_NewlySent == {e \in Elems : sent'[e] # sent[e]}

\* the elements of the batch that starts after `index` elements of the list
C31_Batch(elements, index) ==
    {elements[i] : i \in (index + 1)..Min(index + BatchSize, Len(elements))}

\* C31: the list of the startup sweep is fixed once it has been extracted (no
\* second scan of the document); every pass of the sweep handles the next
\* batch of at most 5 elements of the list, so that every element of the list
\* is offered once; the sweep is running exactly while elements of the list
\* are left, and has ended for good once none is; and a pass of the
\* observer callback handles the inserted subtrees only.
C31_SweepInBatches ==
    [][/\ sweepPc # "init" => sweepElements' = sweepElements
       /\ sweepIndex' # sweepIndex =>
             /\ sweepIndex' = sweepIndex + BatchSize
             /\ C31_NewlySent \subseteq C31_Batch(sweepElements', sweepIndex)
             /\ uniqueIdCounter' - uniqueIdCounter <= BatchSize
       /\ sweepPc' = "running" => sweepIndex' < Len(sweepElements')
       /\ sweepPc' = "done" => sweepIndex' >= Len(sweepElements')
       /\ sweepPc = "done" => sweepPc' = "done" /\ sweepIndex' = sweepIndex
       /\ (sweepPc # "init" /\ sweepIndex' = sweepIndex) =>
             C31_NewlySent \subseteq
                 UNION {Subtree(mutationQueue[i]) : i \in 1..Len(mutationQueue)}]_vars

\* a sweep over more than one batch has ended: its second pass ran after a
\* yield, and every element of its list has been in one batch
C31_Witness ==
    /\ sweepPc = "done"
    /\ Len(sweepElements) > BatchSize
    /\ sweepIndex = BatchSize + BatchSize
    /\ \A i \in 1..Len(sweepElements) : hsExtId[sweepElements[i]] # NoId

-----------------------------------------------------------------------------
\* C32: no step of the content script taken while its enabled flag is false
\* sends a classifyText request.
C32_NoRequestWhileDisabled ==
    [][~isEnabled => (sent' = sent /\ outbox' = outbox)]_vars

-----------------------------------------------------------------------------
\* C33: every classifyText request sent carries a trimmed text of at least
\* 10 and at most 2000 characters.
C33_RequestTextInRange ==
    \A request \in outbox : request.text >= MinTextLen /\ request.text <= MaxTextLen

-----------------------------------------------------------------------------
\* C34: for the message handleMessage was called with, sendResponse has been
\* invoked exactly once when its handler has returned, and not before; the
\* response to a classifyText message carries the elementId of the message.
C34_ExactlyOneResponse ==
    /\ routed.pc = "awaiting" => Len(routed.responses) = 0
    /\ routed.pc = "done" =>
          /\ Len(routed.responses) = 1
          /\ routed.message.action = "classifyText" =>
                routed.responses[1].elementId = routed.message.elementId

\* the handler of an unknown action, of a message that is no object, of a
\* feedback call that rejected, or of a classifyText request answered after
\* an inference error, has returned
C34_Witness ==
    /\ routed.pc = "done"
    /\ \/ routed.message.action \in {"bogus", "null"}
       \/ routed.message.action \in CatchingActions /\ ~routed.responses[1].success
       \/ /\ routed.message.action = "classifyText"
          /\ lastCall.kind = "degraded"
          /\ routed.responses[1].success

-----------------------------------------------------------------------------
\* the counters a scan of `log` gives
C35_Scan(log) ==
    [totalFeedback |-> Len(log),
     falsePositives |-> C11_CountOf(log, "false_positive"),
     falseNegatives |-> C11_CountOf(log, "false_negative"),
     correctClassifications |-> C11_CountOf(log, "correct")]

\* the four counters of the persisted aggregate
C35_Counters ==
    [totalFeedback |-> C6_StoredStats.totalFeedback,
     falsePositives |-> C6_StoredStats.falsePositives,
     falseNegatives |-> C6_StoredStats.falseNegatives,
     correctClassifications |-> C6_StoredStats.correctClassifications]

\* C35 (reconstructible by full scan): while no more entries than the cap have
\* been submitted since the last clear, once every submitFeedback call has
\* returned the four stored counters equal the counts a scan of the stored
\* log gives.
C35_ReconstructibleByScan ==
    (NoSubmitInFlight /\ ~clearedInFlight
       /\ Count(submittedSinceClear) <= FeedbackCap) =>
        C35_Counters = C35_Scan(C6_StoredLog)

\* the same when the calls were made one after the other
C35_SequentialScan ==
    (C6_Sequential /\ Count(submittedSinceClear) <= FeedbackCap) =>
        C35_Counters = C35_Scan(C6_StoredLog)

-----------------------------------------------------------------------------
\* C36 (pure reads, first half): exportFeedback and getFeedbackStats, the
\* second read of an export, leave the stored log and the stored aggregate
\* as they are.
C36_PureReads ==
    [][(exportFeedback \/ exportGetsStats) => storageLocal' = storageLocal]_vars

\* C36 (pure reads, one snapshot): the stats and the feedback list of an
\* export describe one state of the store, also when a submitFeedback call
\* writes between the two reads of the export: the entries the stats list as
\* recent are the first entries of the exported list.
C36_ExportIsSnapshot ==
    lastExport # NoExport =>
        LET exported == parse(lastExport.json)
        IN exported.stats.recentFeedback = sliceTo(exported.feedback, RecentCap)

-----------------------------------------------------------------------------
\* the elements whose request has been answered
C37_Judged == {e \in Elems : hsExtId[e] # NoId /\ hsExtId[e] \in answered}

\* C37 (verdicts and settings): a classification that returns is decided with
\* the threshold the background holds at that moment (hateful exactly when the
\* model's hateful score reaches it), and no later step, a settings update in
\* particular, changes what was done to an element whose verdict has been
\* delivered: obscured stays obscured, untouched stays untouched.
C37_VerdictsStand ==
    [][/\ (lastCall' # lastCall /\ lastCall'.kind = "ai") =>
             lastCall'.verdict =
                 classifyWithAI(lastCall'.result, settings'.selectedModel,
                                settings'.confidence)
       /\ \A e \in C37_Judged :
             /\ applied'[e] = applied[e]
             /\ indicators'[e] = indicators[e]]_vars

\* an element was obscured on a score of 0.82 and another judged normal, and
\* the threshold has since been raised to 0.90
C37_Witness ==
    /\ settings.confidence = 90
    /\ \E e \in C37_Judged : applied[e] = 1
    /\ \E e \in C37_Judged : applied[e] = 0

-----------------------------------------------------------------------------
\* C38 (detections counted): once every storeDetection call in flight has
\* returned, the persisted stats.detected equals the number of hateful
\* verdicts returned since the last clearStats, however the storage reads and
\* writes of concurrent handlers interleaved; and recentDetections never
\* holds more than 50 entries.
C38_DetectedCountsVerdicts ==
    /\ (storeCalls.inFlight = {} /\ ~storeCalls.clearedUnder) =>
           detectionStats.detected = storeCalls.hateful
    /\ Len(recentDetections) <= DetectionsCap

-----------------------------------------------------------------------------
\* C39 (ids): no step changes the id of an element that has one, and after
\* every step any two elements that carry an id carry different ids.
C39_IdsUniqueAndStable ==
    [][/\ \A e \in Elems : hsExtId[e] # NoId => hsExtId'[e] = hsExtId[e]
       /\ \A a \in Elems : \A b \in Elems \ {a} :
             (hsExtId'[a] # NoId /\ hsExtId'[b] # NoId) => hsExtId'[a] # hsExtId'[b]]_vars

\* several elements carry ids, and one of them was handed to
\* processTextElement again after it had received its id
C39_Witness ==
    \E a \in Elems : \E b \in Elems \ {a} :
        /\ hsExtId[a] # NoId
        /\ hsExtId[b] # NoId
        /\ a \in reoffered
        /\ uniqueIdCounter >= 2

-----------------------------------------------------------------------------
\* some http(s) URL, a match of /https?:\/\/[^\s]+/, lies in the string
C40_ContainsUrl(str) == \E i \in 1..Len(str) : urlEnd(str, i) > 0

\* two whitespace characters follow one another in the string
C40_WhitespaceRun(str) ==
    \E i \in 1..(Len(str) - 1) : isWhitespace(str[i]) /\ isWhitespace(str[i + 1])

\* the string preprocessText returns is no longer than maxLength, contains no
\* http(s) URL and no run of more than one whitespace character
C40_Bounded ==
    preprocessCall.pc = "returned" =>
        /\ Len(preprocessCall.processed) <= MaxLength
        /\ ~C40_ContainsUrl(preprocessCall.processed)
        /\ ~C40_WhitespaceRun(preprocessCall.processed)

\* C40 (preprocessText): the string returned is at most maxLength characters
\* long, contains no http(s) URL and no run of more than one whitespace
\* character, and preprocessText applied to it returns it unchanged, also
\* when the truncation point falls on a whitespace character.
C40_PreprocessIdempotent ==
    preprocessCall.pc = "returned" =>
        /\ Len(preprocessCall.processed) <= MaxLength
        /\ ~C40_ContainsUrl(preprocessCall.processed)
        /\ ~C40_WhitespaceRun(preprocessCall.processed)
        /\ preprocessText(preprocessCall.processed) = preprocessCall.processed

=============================================================================
